---- MODULE Spec2Model ----
(***************************************************************************)
(* git-agent: the message store (useMessageState), the chat UI's session   *)
(* lifecycle (setupChannel, the stream frame handler, sendMessage, the     *)
(* actor lifecycle callbacks, cleanup) and the theater client wrapper.     *)
(*                                                                         *)
(* Text is a sequence of one-character strings, so that concatenation      *)
(* (+=) and trim() are computed rather than assumed.                       *)
(***************************************************************************)
EXTENDS Integers, Sequences, FiniteSets, TLC

(***************************************************************************)
(* Bounds of the model.                                                    *)
(***************************************************************************)
\* longest transcript the message-store specification builds
MaxLen == 3
\* latest reading of the clock (new Date()) in the message-store specification
MaxClock == 2
\* stream frames are delivered while the transcript is shorter than this
MaxFrames == 1
\* stream frames delivered in the frame-handler specification
MaxStreamFrames == 2
\* sendMessage calls the transport accepts an AddMessage request for
MaxSends == 2
\* onActorExit / onActorError callbacks delivered (each leaves a timer)
MaxCallbacks == 1
\* signals, exit shortcuts and terminal exits are raised while fewer actor
\* stops than this were issued
MaxInterrupts == 2
\* frames and sends handled in the placeholder-per-turn specification
MaxTurnSteps == 3
\* calls of cleanup() in the cleanup specification
MaxCleanups == 2
\* lifecycle callbacks delivered in the shutdown specification
MaxShutdownCallbacks == 2
\* frames delivered at any time in the turn specification; past it the
\* transport delivers only the frame that ends a turn in progress
MaxLiveFrames == 1
\* deliveries of the transport to the handlers of startGitSession
MaxDeliveries == 2

VARIABLES
  messages,          \* useMessageState: the transcript (React state)
  clock,             \* the wall clock read by new Date()
  last,              \* the last store operation, frame or lifecycle callback
                     \* with its input, or how the process exited
  ui,                \* which GitChatApp is mounted: "lifecycle" | "autoexit"
  mode,              \* the mode prop
  isGenerating,      \* useState: isGenerating
  actorHasExited,    \* useState: actorHasExited
  workflowCompleted, \* useState: workflowCompleted
  currentMode,       \* useState: currentMode
  setupStatus,       \* useState: setupStatus
  client,            \* useState: client (FALSE = null)
  session,           \* useState: session (FALSE = null)
  channel,           \* useState: channel (FALSE = null)
  pc,                \* where setupChannel() is suspended
  rendered,          \* the state the installed callbacks closed over
  effectCleanup,     \* the cleanup the setup effect (actorCallbacks) closed over
  appCleanup,        \* renderGitChatApp: appCleanup (set by onCleanupReady)
  mounted,           \* the ink app is mounted
  actorStarted,      \* the transport has started the domain actor
  streamOpen,        \* the channel stream is open with onMessage registered
  wire,              \* how many of each request the transport was sent
  pendingSends,      \* AddMessage requests awaiting their response
  stopping,          \* cleanups awaiting actor.stop(), with what follows each
  timers,            \* the shutdown timers scheduled by setTimeout, in order
  exitCode           \* the code process.exit was called with, or NotExited

storeVars == <<messages, clock, last>>

reactVars == <<isGenerating, actorHasExited, workflowCompleted, currentMode,
               setupStatus, client, session, channel>>

closureVars == <<rendered, effectCleanup, appCleanup>>

transportVars == <<actorStarted, streamOpen, wire, pendingSends, stopping>>

sessionVars == <<ui, mode, reactVars, pc, closureVars, mounted, transportVars,
                 timers, exitCode>>

vars == <<storeVars, sessionVars>>

(***************************************************************************)
(* Message (terminal-chat-ui types/common): role, content, status,         *)
(* toolName, toolArgs, timestamp.  An absent toolName / toolArgs is        *)
(* <<>>.                                                                   *)
(***************************************************************************)
Roles == {"user", "assistant", "system", "tool", "error"}
Statuses == {"pending", "complete"}
NoTool == <<>>

Message(role, content, status, toolName, toolArgs, ts) ==
  [role |-> role, content |-> content, status |-> status,
   toolName |-> toolName, toolArgs |-> toolArgs, timestamp |-> ts]

\* [...prev] with x spliced in at 1-based position i (splice(i-1, 0, x))
InsertAt(s, i, x) ==
  SubSeq(s, 1, i - 1) \o <<x>> \o SubSeq(s, i, Len(s))

\* prev.filter((_, j) => j + 1 !== i)
RemoveAt(s, i) ==
  IF i \in 1..Len(s) THEN SubSeq(s, 1, i - 1) \o SubSeq(s, i + 1, Len(s)) ELSE s

IsPending(m) == m.status = "pending"
IsPendingAssistant(m) == m.role = "assistant" /\ m.status = "pending"

\* the greatest element of a set of indices, or 0: where a backward scan stops
MaxIndex(hits) ==
  IF hits = {} THEN 0 ELSE CHOOSE i \in hits : \A j \in hits : j <= i

\* for (i = length - 1; i >= 0; i--) if (message.status === 'pending') ... break
LastPendingIndex(s) == MaxIndex({i \in 1..Len(s) : IsPending(s[i])})

\* the same scan for role === 'assistant' && status === 'pending'
LastPendingAssistantIndex(s) ==
  MaxIndex({i \in 1..Len(s) : IsPendingAssistant(s[i])})

(***************************************************************************)
(* useMessageState: each operation as the function it hands to setMessages *)
(***************************************************************************)
\* a plausible slip: the new entry put first, [newMessage, ...prev]
addMessageFirst(prev, role, content, status, toolName, toolArgs, ts) ==
  <<Message(role, content, status, toolName, toolArgs, ts)>> \o prev

\* a plausible slip: every new entry left pending, whatever status is asked
addMessageLeftPending(prev, role, content, status, toolName, toolArgs, ts) ==
  Append(prev, Message(role, content, "pending", toolName, toolArgs, ts))

\* addMessage: setMessages(prev => [...prev, newMessage])
addMessage(prev, role, content, status, toolName, toolArgs, ts) ==
  Append(prev, Message(role, content, status, toolName, toolArgs, ts))

\* addPendingMessage: addMessage(role, content, 'pending')
addPendingMessage(prev, role, content, ts) ==
  addMessage(prev, role, content, "pending", NoTool, <<>>, ts)

\* a plausible slip: the scan run forward, stopping at the first pending entry
updateFirstPendingMessage(prev, content, status) ==
  LET hits == {i \in 1..Len(prev) : IsPending(prev[i])}
  IN IF hits = {} THEN prev
     ELSE LET i == CHOOSE i \in hits : \A j \in hits : i <= j
          IN [prev EXCEPT ![i] = [@ EXCEPT !.content = content, !.status = status]]

\* updateLastPendingMessage: the last pending entry gets content and status
updateLastPendingMessage(prev, content, status) ==
  LET i == LastPendingIndex(prev)
  IN IF i = 0 THEN prev
     ELSE [prev EXCEPT ![i] = [@ EXCEPT !.content = content, !.status = status]]

\* updateLastPendingMessageContent: updateLastPendingMessage(content, 'pending')
updateLastPendingMessageContent(prev, content) ==
  updateLastPendingMessage(prev, content, "pending")

\* a plausible slip: the scan run forward, stopping at the first pending
\* assistant
addToolMessageFirstPending(prev, toolName, toolArgs, ts) ==
  LET hits == {i \in 1..Len(prev) : IsPendingAssistant(prev[i])}
      insertIndex == IF hits = {} THEN Len(prev) + 1
                     ELSE CHOOSE i \in hits : \A j \in hits : i <= j
  IN InsertAt(prev, insertIndex,
              Message("tool", <<>>, "complete", toolName, toolArgs, ts))

\* a plausible slip: the tool entry spliced in after the pending assistant
addToolMessageAfter(prev, toolName, toolArgs, ts) ==
  LET i == LastPendingAssistantIndex(prev)
      insertIndex == IF i = 0 THEN Len(prev) + 1 ELSE i + 1
  IN InsertAt(prev, insertIndex,
              Message("tool", <<>>, "complete", toolName, toolArgs, ts))

\* addToolMessage: spliced in before the last pending assistant, else appended
addToolMessage(prev, toolName, toolArgs, ts) ==
  LET i == LastPendingAssistantIndex(prev)
      insertIndex == IF i = 0 THEN Len(prev) + 1 ELSE i
  IN InsertAt(prev, insertIndex,
              Message("tool", <<>>, "complete", toolName, toolArgs, ts))

\* clearMessages: setMessages([])
clearMessages(prev) == <<>>

\* removeMessage: prev.filter((_, i) => i !== index), index counted from 0
removeMessage(prev, index) == RemoveAt(prev, index + 1)

(***************************************************************************)
(* Text: a sequence of tokens, each a non-empty run of characters; " " and *)
(* "\n" are the whitespace tokens.                                         *)
(***************************************************************************)
Whitespace == {" ", "\n"}

\* s.trim() is truthy: something other than whitespace is left
NonBlank(s) == \E i \in 1..Len(s) : s[i] \notin Whitespace

(***************************************************************************)
(* error-parser.  A JavaScript value, as far as formatActorError tells     *)
(* values apart: t is its kind ("undefined", "null", "number", "string",   *)
(* "bigint", "array", "object", "Error"), n the number, s the text of a    *)
(* string or the message of an Error, bytes the elements of an array of    *)
(* numbers or the decimal digits of a bigint, entries the own properties   *)
(* of an object in order.                                                  *)
(***************************************************************************)
Value(t, n, s, bytes, entries) ==
  [t |-> t, n |-> n, s |-> s, bytes |-> bytes, entries |-> entries]

Undefined == Value("undefined", 0, <<>>, <<>>, <<>>)
Null == Value("null", 0, <<>>, <<>>, <<>>)
Number(n) == Value("number", n, <<>>, <<>>, <<>>)
Str(s) == Value("string", 0, s, <<>>, <<>>)
BigInt(digits) == Value("bigint", 0, <<>>, digits, <<>>)
Array(bytes) == Value("array", 0, <<>>, bytes, <<>>)
Object(entries) == Value("object", 0, <<>>, <<>>, entries)
NativeError(message) == Value("Error", 0, message, <<>>, <<>>)

Entry(key, value) == [key |-> key, value |-> value]

\* interface WitActorError { error_type; data }, and the same without data
WitErrorData(error_type, data) ==
  Object(<<Entry("error_type", Str(<<error_type>>)), Entry("data", data)>>)
WitErrorNoData(error_type) == Object(<<Entry("error_type", Str(<<error_type>>))>>)
WitError(error_type) == WitErrorData(error_type, Null)

\* the {"Internal": {"data": [...]}} structure
KeyedError(kind, data) == Object(<<Entry(kind, Object(<<Entry("data", data)>>))>>)

\* key in v, and v[key]
Has(v, key) == \E i \in 1..Len(v.entries) : v.entries[i].key = key
Get(v, key) ==
  IF Has(v, key)
  THEN v.entries[CHOOSE i \in 1..Len(v.entries) : v.entries[i].key = key].value
  ELSE Undefined

\* !v is false
Truthy(v) ==
  CASE v.t \in {"undefined", "null"} -> FALSE
    [] v.t = "number" -> v.n # 0
    [] v.t = "string" -> v.s # <<>>
    [] v.t = "bigint" -> v.bytes # <<0>>
    [] OTHER -> TRUE

\* a call either returns a value or throws an Error
Returned(v) == [threw |-> FALSE, value |-> v]
Thrown(message) == [threw |-> TRUE, value |-> NativeError(message)]

\* items joined by "," (Array.prototype.join, the members of a JSON text)
RECURSIVE Join(_)
Join(items) ==
  IF items = <<>> THEN <<>>
  ELSE IF Len(items) = 1 THEN Head(items)
  ELSE Head(items) \o <<",">> \o Join(Tail(items))

\* String(v), `${v}`
String(v) ==
  CASE v.t = "undefined" -> <<"undefined">>
    [] v.t = "null" -> <<"null">>
    [] v.t = "number" -> <<ToString(v.n)>>
    [] v.t = "string" -> v.s
    [] v.t = "bigint" -> [i \in 1..Len(v.bytes) |-> ToString(v.bytes[i])]
    [] v.t = "array" -> Join([i \in 1..Len(v.bytes) |-> <<ToString(v.bytes[i])>>])
    [] v.t = "Error" -> <<"Error: ">> \o v.s
    [] OTHER -> <<"[object Object]">>

\* JSON.stringify(v): a property whose value is undefined is left out
RECURSIVE JSONStringify(_)
JSONStringify(v) ==
  CASE v.t = "null" -> <<"null">>
    [] v.t = "number" -> <<ToString(v.n)>>
    [] v.t = "string" -> <<"\"">> \o v.s \o <<"\"">>
    [] v.t = "array" ->
         <<"[">> \o Join([i \in 1..Len(v.bytes) |-> <<ToString(v.bytes[i])>>])
           \o <<"]">>
    [] v.t = "object" ->
         LET kept == SelectSeq(v.entries, LAMBDA e : e.value.t # "undefined")
         IN <<"{">>
              \o Join([i \in 1..Len(kept) |->
                         <<"\"", kept[i].key, "\"", ":">>
                           \o JSONStringify(kept[i].value)])
              \o <<"}">>
    [] OTHER -> <<"{}">>

\* data.length (undefined, here -1, for what is not an array)
LengthOf(data) == IF data.t = "array" THEN Len(data.bytes) ELSE -1

RangeError == <<"Invalid typed array length">>

\* new Uint8Array(data): the elements modulo 256 for an array, that many
\* zero bytes for a number (a RangeError for a negative one), empty otherwise
Uint8Array(data) ==
  CASE data.t = "array" ->
         Returned(Array([i \in 1..Len(data.bytes) |-> data.bytes[i] % 256]))
    [] data.t = "number" ->
         IF data.n < 0 THEN Thrown(RangeError)
         ELSE Returned(Array([i \in 1..data.n |-> 0]))
    [] OTHER -> Returned(Array(<<>>))

\* the decimal digits, least significant first, of ds * m + carry
RECURSIVE TimesPlus(_, _, _)
TimesPlus(ds, m, carry) ==
  IF ds = <<>>
  THEN IF carry = 0 THEN <<>>
       ELSE <<carry % 10>> \o TimesPlus(<<>>, m, carry \div 10)
  ELSE LET v == Head(ds) * m + carry
       IN <<v % 10>> \o TimesPlus(Tail(ds), m, v \div 10)

\* the decimal digits, least significant first, of the little-endian integer
RECURSIVE LittleEndian(_)
LittleEndian(bytes) ==
  IF bytes = <<>> THEN <<>>
  ELSE TimesPlus(LittleEndian(Tail(bytes)), 256, Head(bytes))

Reverse(ds) == [i \in 1..Len(ds) |-> ds[Len(ds) + 1 - i]]

\* view.getBigUint64(0, true): the bigint, its digits written as it prints
getBigUint64(bytes) ==
  LET ds == LittleEndian(SubSeq(bytes, 1, 8))
  IN BigInt(IF ds = <<>> THEN <<0>> ELSE Reverse(ds))

\* parseTimeoutData
parseTimeoutData(data) ==
  IF ~Truthy(data) \/ LengthOf(data) # 8 THEN Returned(Null)
  ELSE LET view == Uint8Array(data)
       IN IF view.threw THEN view
          ELSE Returned(getBigUint64(view.value.bytes))

\* the character a byte decodes to; a byte from 128 up on its own is not
\* UTF-8 and decodes to the replacement character
Replacement == "U+FFFD"
CharOf(b) ==
  CASE b >= 128 -> Replacement
    [] b = 0 -> "U+0000"
    [] b = 34 -> "\""
    [] b = 53 -> "5"
    [] b = 58 -> ":"
    [] b = 99 -> "c"
    [] b = 100 -> "d"
    [] b = 101 -> "e"
    [] b = 102 -> "f"
    [] b = 105 -> "i"
    [] b = 108 -> "l"
    [] b = 110 -> "n"
    [] b = 111 -> "o"
    [] b = 112 -> "p"
    [] b = 114 -> "r"
    [] b = 115 -> "s"
    [] b = 116 -> "t"
    [] b = 117 -> "u"
    [] b = 123 -> "{"
    [] b = 125 -> "}"
    [] OTHER -> "?"

\* new TextDecoder().decode(bytes)
TextDecoder(bytes) == [i \in 1..Len(bytes) |-> CharOf(bytes[i])]

\* parseStringData
parseStringData(data) ==
  IF ~Truthy(data) THEN Returned(Null)
  ELSE LET array == Uint8Array(data)
       IN IF array.threw THEN array
          ELSE Returned(Str(TextDecoder(array.value.bytes)))

\* JSON.parse, on the JSON texts the model's payloads decode to; any other
\* text is a SyntaxError
JSONParse(text) ==
  CASE text = <<"{", "\"", "d", "e", "s", "c", "r", "i", "p", "t", "i", "o", "n",
                "\"", ":", "\"", "d", "\"", "}">> ->
         Returned(Object(<<Entry("description", Str(<<"d">>))>>))
    [] text = <<"{", "\"", "d", "e", "s", "c", "r", "i", "p", "t", "i", "o", "n",
                "\"", ":", "5", "}">> ->
         Returned(Object(<<Entry("description", Number(5))>>))
    [] text = <<"{", "}">> -> Returned(Object(<<>>))
    [] text = <<"n", "u", "l", "l">> -> Returned(Null)
    [] text = <<"5">> -> Returned(Number(5))
    [] OTHER -> Thrown(<<"Unexpected token">>)

\* parseInternalErrorData
parseInternalErrorData(data) ==
  IF ~Truthy(data) THEN Returned(Null)
  ELSE LET array == Uint8Array(data)
       IN IF array.threw THEN array
          ELSE LET parsed == JSONParse(TextDecoder(array.value.bytes))
               IN IF parsed.threw
                  THEN Returned(Str(<<"Could not parse internal error details.">>))
                  ELSE parsed

\* value || fallback, for a parsed string
OrElse(parsed, fallback) == IF Truthy(parsed) THEN String(parsed) ELSE fallback

\* formatWitActorError
formatWitActorError(error_type, data) ==
  LET kind == IF error_type.t = "string" THEN error_type.s ELSE <<>>
  IN CASE kind = <<"operation-timeout">> ->
            LET timeout == parseTimeoutData(data)
            IN IF timeout.threw THEN timeout
               ELSE Returned(Str(
                      <<"Operation timed out after ">>
                        \o (IF Truthy(timeout.value)
                            THEN String(timeout.value) \o <<" seconds">>
                            ELSE <<"a specified duration">>)
                        \o <<".">>))
       [] kind = <<"channel-closed">> ->
            Returned(Str(
              <<"Communication channel to the actor was closed unexpectedly.">>))
       [] kind = <<"shutting-down">> ->
            Returned(Str(
              <<"Actor is shutting down and cannot accept new operations.">>))
       [] kind = <<"function-not-found">> ->
            LET funcName == parseStringData(data)
            IN IF funcName.threw THEN funcName
               ELSE Returned(Str(
                      <<"Error: The function '">>
                        \o OrElse(funcName.value, <<"unknown">>)
                        \o <<"' was not found in the actor.">>))
       [] kind = <<"type-mismatch">> ->
            LET mismatchFunc == parseStringData(data)
            IN IF mismatchFunc.threw THEN mismatchFunc
               ELSE Returned(Str(
                      <<"Error: A parameter or return type did not match for function '">>
                        \o OrElse(mismatchFunc.value, <<"unknown">>)
                        \o <<"'.">>))
       [] kind \in {<<"internal">>, <<"Internal">>} ->
            LET internalDetails == parseInternalErrorData(data)
            IN IF internalDetails.threw THEN internalDetails
               ELSE IF /\ Truthy(internalDetails.value)
                       /\ Get(internalDetails.value, "description").t = "string"
               THEN Returned(Str(
                      <<"An internal actor error occurred: ">>
                        \o Get(internalDetails.value, "description").s))
               ELSE Returned(Str(
                      <<"An internal actor error occurred. Check the logs for more details.">>))
       [] kind = <<"serialization-error">> ->
            Returned(Str(
              <<"Failed to serialize or deserialize data for actor communication.">>))
       [] kind = <<"update-component-error">> ->
            LET updateErrorMsg == parseStringData(data)
            IN IF updateErrorMsg.threw THEN updateErrorMsg
               ELSE Returned(Str(
                      <<"Failed to update the actor's component: ">>
                        \o OrElse(updateErrorMsg.value, <<"no details available">>)
                        \o <<".">>))
       [] kind = <<"paused">> ->
            Returned(Str(<<"The actor is paused and cannot process operations.">>))
       [] OTHER ->
            Returned(Str(
              <<"An unknown actor error occurred: ">>
                \o JSONStringify(Object(<<Entry("error_type", error_type),
                                          Entry("data", data)>>))))

\* formatActorError: what it returns (value.s is the message) or throws
formatActorError(error) ==
  IF error.t = "Error" THEN Returned(Str(error.s))
  ELSE IF error.t = "object"
  THEN IF /\ Len(error.entries) = 1
          /\ error.entries[1].value.t = "object"
          /\ Has(error.entries[1].value, "data")
       THEN formatWitActorError(Str(<<error.entries[1].key>>),
                                Get(error.entries[1].value, "data"))
       ELSE IF Has(error, "error_type")
       THEN formatWitActorError(Get(error, "error_type"), Get(error, "data"))
       ELSE Returned(Str(JSONStringify(error)))
  ELSE IF error.t = "array" THEN Returned(Str(JSONStringify(error)))
  ELSE Returned(Str(String(error)))

\* error instanceof Error ? error.message : String(error)
errorMessageOf(error) ==
  IF error.t = "Error" THEN error.s ELSE String(error)

\* how each GitChatApp words an error: the lifecycle UI through
\* formatActorError, the auto-exit UI through error.message / String(error)
ErrorText(variant, error) ==
  IF variant = "lifecycle" THEN formatActorError(error).value.s
  ELSE errorMessageOf(error)

\* the role each GitChatApp gives an error entry
ErrorRole(variant) == IF variant = "lifecycle" THEN "error" ELSE "system"

\* what JSON.parse and a property read of undefined throw
SyntaxError == NativeError(<<"Unexpected token">>)
TypeError == NativeError(<<"Cannot read properties of undefined">>)

(***************************************************************************)
(* Stream frames.  A frame either fails Buffer/JSON.parse (decodable =     *)
(* FALSE) or parses to {type, message: {entry: {Message | Completion:      *)
(* {role, content, stop_reason}}}}.  content is a list of blocks, a        *)
(* string, or absent.                                                      *)
(***************************************************************************)
TextBlock(text) == [type |-> "text", text |-> text, name |-> <<>>, input |-> <<>>]
ToolUseBlock(name, input) ==
  [type |-> "tool_use", text |-> <<>>, name |-> name, input |-> input]
ToolResultBlock ==
  [type |-> "tool_result", text |-> <<>>, name |-> <<>>, input |-> <<>>]

Frame(decodable, type, hasMessage, entry, role, contentKind, blocks, text, stop) ==
  [decodable |-> decodable, type |-> type, hasMessage |-> hasMessage,
   entry |-> entry, role |-> role, contentKind |-> contentKind,
   blocks |-> blocks, text |-> text, stop_reason |-> stop]

ChatFrame(entry, role, contentKind, blocks, text, stop) ==
  Frame(TRUE, "chat_message", TRUE, entry, role, contentKind, blocks, text, stop)

\* bytes that are not JSON
FrameUndecodable ==
  Frame(FALSE, "", FALSE, "", "", "none", <<>>, <<>>, "none")
\* a well-formed envelope of another type
FrameOtherType ==
  Frame(TRUE, "status", TRUE, "Message", "assistant", "blocks",
        <<TextBlock(<<"x">>)>>, <<>>, "end_turn")
\* a chat_message envelope without a message field
FrameNoMessage ==
  Frame(TRUE, "chat_message", FALSE, "", "", "none", <<>>, <<>>, "none")
\* the echo of a user turn
FrameUser ==
  ChatFrame("Message", "user", "blocks", <<TextBlock(<<"hi">>)>>, <<>>, "none")
\* a user entry without content: content[0] throws
FrameUserNoContent ==
  ChatFrame("Message", "user", "none", <<>>, <<>>, "none")
\* a user entry that returns a tool's result: [tool_result, text "x"]
FrameUserToolResult ==
  ChatFrame("Message", "user", "blocks",
            <<ToolResultBlock, TextBlock(<<"x">>)>>, <<>>, "none")
\* [text "a", tool_use "t1", text "b"], more frames to follow
FrameTextToolText ==
  ChatFrame("Message", "assistant", "blocks",
            <<TextBlock(<<"a">>), ToolUseBlock(<<"t1">>, <<"arg">>),
              TextBlock(<<"b">>)>>, <<>>, "tool_use")
\* one text block "Done.", end of turn
FrameDone ==
  ChatFrame("Message", "assistant", "blocks", <<TextBlock(<<"Done.">>)>>,
            <<>>, "end_turn")
\* a Completion entry whose content is a string, no stop_reason
FrameString ==
  ChatFrame("Completion", "", "string", <<>>, <<"s">>, "none")
\* whitespace only, and a tool_use block without a name
FrameBlankTool ==
  ChatFrame("Message", "assistant", "blocks",
            <<TextBlock(<<" ">>), ToolUseBlock(<<>>, <<>>)>>, <<>>, "end_turn")

Frames ==
  {FrameUndecodable, FrameOtherType, FrameNoMessage, FrameUser,
   FrameUserNoContent, FrameUserToolResult, FrameTextToolText, FrameDone,
   FrameString, FrameBlankTool}

\* the frames a session of the UI is driven with
SessionFrames == {FrameUndecodable, FrameUser, FrameString, FrameDone}

\* messageEntry?.Message?.role === 'user'
IsUserMessage(frame) == frame.entry = "Message" /\ frame.role = "user"

\* messageEntry?.Message?.content[0]?.text || ''
FirstText(frame) ==
  IF frame.contentKind = "blocks" /\ frame.blocks # <<>>
  THEN frame.blocks[1].text
  ELSE <<>>

\* a plausible slip: the text of a frame left pending instead of complete
ProcessBlocksPending(blocks, msgs, textContent, ts) ==
  IF blocks = <<>> THEN msgs
  ELSE addPendingMessage(msgs, "assistant", blocks[1].text, ts)

\* for (const block of messageContent): a text block is added to the buffer
\* textContent and the buffer appended as an assistant entry; a tool_use
\* block becomes a tool entry at once
RECURSIVE ProcessBlocks(_, _, _, _)
ProcessBlocks(blocks, msgs, textContent, ts) ==
  IF blocks = <<>> THEN msgs
  ELSE LET block == Head(blocks)
       IN IF block.type = "text" /\ block.text # <<>>
          THEN LET buffer == textContent \o block.text
               IN ProcessBlocks(Tail(blocks),
                    IF NonBlank(buffer)
                    THEN addMessage(msgs, "assistant", buffer, "complete",
                                    NoTool, <<>>, ts)
                    ELSE msgs,
                    buffer, ts)
          ELSE IF block.type = "tool_use"
          THEN ProcessBlocks(Tail(blocks),
                 addToolMessage(msgs,
                   IF block.name # <<>> THEN block.name ELSE <<"unknown">>,
                   block.input, ts),
                 textContent, ts)
          ELSE ProcessBlocks(Tail(blocks), msgs, textContent, ts)

\* a plausible slip: any stop reason taken for the end of the turn
AnyStopReason(stop_reason) == stop_reason # "none"

\* if (stopReason === 'end_turn') setIsGenerating(false)
EndOfTurn(stop_reason) == stop_reason = "end_turn"

\* a plausible slip: the envelope's type not looked at
RecognizedAnyType(frame) == TRUE

\* if (parsedMessage.type === 'chat_message' && parsedMessage.message)
Recognized(frame) == frame.type = "chat_message" /\ frame.hasMessage

\* the catch of the frame handler: one error entry, isGenerating cleared
\* a plausible slip: the catch appends the entry and leaves the turn open
onMessageCatchStillGenerating(variant, error, msgs, ts) ==
  [messages |-> addMessage(msgs, ErrorRole(variant),
                           <<"Error: ">> \o ErrorText(variant, error),
                           "complete", NoTool, <<>>, ts),
   isGenerating |-> TRUE]

\* catch (error) { addMessage(...); setIsGenerating(false) }
onMessageCatch(variant, error, msgs, ts) ==
  [messages |-> addMessage(msgs, ErrorRole(variant),
                           <<"Error: ">> \o ErrorText(variant, error),
                           "complete", NoTool, <<>>, ts),
   isGenerating |-> FALSE]

\* channelStream.onMessage((message) => { try { ... } catch { ... } }):
\* the transcript and isGenerating it leaves
onMessage(variant, frame, msgs, generating, ts) ==
  IF ~frame.decodable THEN onMessageCatch(variant, SyntaxError, msgs, ts)
  ELSE IF Recognized(frame)
  THEN IF ~IsUserMessage(frame)
       THEN [messages |->
               IF frame.contentKind = "blocks"
               THEN ProcessBlocks(frame.blocks, msgs, <<>>, ts)
               ELSE IF frame.contentKind = "string" /\ NonBlank(frame.text)
               THEN addMessage(msgs, "assistant", frame.text, "complete",
                               NoTool, <<>>, ts)
               ELSE msgs,
             isGenerating |->
               IF EndOfTurn(frame.stop_reason) THEN FALSE ELSE generating]
       ELSE IF frame.contentKind = "none"
       THEN onMessageCatch(variant, TypeError, msgs, ts)
       ELSE [messages |-> addMessage(msgs, "user", FirstText(frame),
                                     "complete", NoTool, <<>>, ts),
             isGenerating |-> generating]
  ELSE [messages |-> msgs, isGenerating |-> generating]

(***************************************************************************)
(* theater-client: what each wrapper makes of the actor's response.  A     *)
(* response is its type, or "throw" when requestJson itself fails.         *)
(***************************************************************************)
IdResponses == {"ChatStateActorId", "ChatStateActorIdEmpty", "Other", "throw"}
ChatResponses == {"Success", "Error", "Other", "throw"}

\* a plausible slip: the actor_id not looked at
getChatStateActorIdAnyId(response) ==
  IF response \in {"ChatStateActorId", "ChatStateActorIdEmpty"}
  THEN "ok" ELSE "throw"

\* a plausible slip: only an Error response taken for a failure
startGitWorkflowUnlessError(response) ==
  CASE response = "Error" -> "WorkflowError"
    [] response = "throw" -> "TransportError"
    [] OTHER -> "ok"

\* getChatStateActorId: the id, or a throw on any other shape
getChatStateActorId(response) ==
  IF response = "ChatStateActorId" THEN "ok" ELSE "throw"

\* startGitWorkflow: Success returns, Error and anything else throw
startGitWorkflow(response) ==
  CASE response = "Success" -> "ok"
    [] response = "Error" -> "WorkflowError"
    [] response = "throw" -> "TransportError"
    [] OTHER -> "ProtocolError"

\* a plausible slip: only a failure of the request itself taken for one
sendMessageUnlessThrow(response) ==
  IF response = "throw" THEN "TransportError" ELSE "ok"

\* sendMessage: throws unless the response is Success
sendMessage(response) ==
  CASE response = "Success" -> "ok"
    [] response = "throw" -> "TransportError"
    [] OTHER -> "RejectedError"

\* the Error each failure is thrown as
ThrownError(outcome) ==
  CASE outcome = "WorkflowError" ->
         NativeError(<<"Failed to start git workflow: ", "message">>)
    [] outcome = "ProtocolError" ->
         NativeError(<<"Invalid response from git-chat-assistant: ", "response">>)
    [] outcome = "RejectedError" ->
         NativeError(<<"Git assistant rejected message: ", "response">>)
    [] OTHER -> NativeError(<<"transport failure">>)

(***************************************************************************)
(* The chat UI: GitChatApp and renderGitChatApp.                           *)
(*   "lifecycle" is the GitChatApp with actor lifecycle callbacks,         *)
(*   "autoexit"  the GitChatApp with useGracefulExit and the auto-exit     *)
(*   effects.                                                              *)
(* A state setter takes effect at once; the callbacks handed to the input, *)
(* the shortcuts and the parent (sendMessage, cleanup, gracefulExit) keep  *)
(* the state of the render that created them until Render runs again.      *)
(***************************************************************************)
NotExited == -1

ExitTimerDelay == 1000
ErrorTimerDelay == 2000

Variants == {"lifecycle", "autoexit"}
\* the mode that sets isGenerating during setup
AutoMode(variant) == IF variant = "lifecycle" THEN "task" ELSE "workflow"
Modes(variant) == {AutoMode(variant), "interactive"}

\* the state a render hands to the callbacks and effects it creates, as far
\* as they read it: sendMessage (channel, isGenerating, actorHasExited),
\* cleanup / gracefulExit (client, session, channel), the 'i' shortcut
\* (currentMode), the input being on screen (setupStatus === 'ready'), and
\* in the auto-exit UI the dependencies of its two effects
Snapshot ==
  [client |-> client, session |-> session, channel |-> channel,
   isGenerating |-> isGenerating, actorHasExited |-> actorHasExited,
   workflowCompleted |-> ui = "autoexit" /\ workflowCompleted,
   currentMode |-> currentMode,
   ready |-> setupStatus = "ready",
   lastIsAssistant |->
     /\ ui = "autoexit"
     /\ Len(messages) > 0
     /\ messages[Len(messages)].role = "assistant"]

\* cleanup / gracefulExit as created by a render: what it closed over
CleanupOf(snap) ==
  [client |-> snap.client, session |-> snap.session,
   channel |-> IF ui = "lifecycle" THEN snap.channel ELSE FALSE]

NoCleanup == [client |-> FALSE, session |-> FALSE, channel |-> FALSE]

\* what runs once a cleanup has returned: app.unmount() where the caller is
\* renderGitChatApp's cleanup, process.exit(code) where the caller has one;
\* by names the caller
Then(code, unmounts, by) == [exit |-> code, unmount |-> unmounts, by |-> by]

Alive == exitCode = NotExited

\* the requests the transport sees, and how many of each were issued
Requests ==
  {"startActor", "GetChatStateActorId", "openChannel", "StartChat",
   "AddMessage", "close", "stop"}
NoRequests == [r \in Requests |-> 0]
Sent(w, r) == [w EXCEPT ![r] = @ + 1]

Init ==
  /\ messages = <<>>
  /\ clock = 0
  /\ last = [op |-> "init"]
  /\ ui \in Variants
  /\ mode \in Modes(ui)
  /\ isGenerating = FALSE
  /\ actorHasExited = FALSE
  /\ workflowCompleted = FALSE
  /\ currentMode = mode
  /\ setupStatus = "connecting"
  /\ client = FALSE
  /\ session = FALSE
  /\ channel = FALSE
  /\ pc = "mount"
  /\ rendered = Snapshot
  /\ effectCleanup = NoCleanup
  /\ appCleanup = NoCleanup
  /\ mounted = TRUE
  /\ actorStarted = FALSE
  /\ streamOpen = FALSE
  /\ wire = NoRequests
  /\ pendingSends = 0
  /\ stopping = <<>>
  /\ timers = <<>>
  /\ exitCode = NotExited

(***************************************************************************)
(* setupChannel(): one action per stretch between two awaits.              *)
(***************************************************************************)
\* a plausible slip: the workflow started before the stream is opened
RequestAfterChatFirst(at) ==
  CASE at = "mount" -> "startActor"
    [] at = "startDomainActor" -> "GetChatStateActorId"
    [] at = "getChatStateActorId" -> "StartChat"
    [] at = "openChannelStream" -> "openChannel"

\* the request setupChannel issues next, by the await it resumes from
RequestAfter(at) ==
  CASE at = "mount" -> "startActor"
    [] at = "startDomainActor" -> "GetChatStateActorId"
    [] at = "getChatStateActorId" -> "openChannel"
    [] at = "openChannelStream" -> "StartChat"

\* the catch of setupChannel
SetupFails ==
  /\ setupStatus' = "error"
  /\ isGenerating' = FALSE
  /\ pc' = "failed"

\* the effect runs: new client, setClient, 'starting_actor', startDomainActor
\* is called with actorCallbacks, which close over this render's cleanup
SetupStart ==
  /\ Alive /\ pc = "mount"
  /\ client' = TRUE
  /\ setupStatus' = "starting_actor"
  /\ effectCleanup' = CleanupOf(rendered)
  /\ wire' = Sent(wire, RequestAfter(pc))
  /\ pc' = "startDomainActor"
  /\ UNCHANGED <<messages, clock, last, ui, mode, isGenerating, actorHasExited,
                 workflowCompleted, currentMode, session, channel, rendered,
                 appCleanup, mounted, actorStarted, streamOpen, pendingSends,
                 stopping, timers, exitCode>>

\* startDomainActor returns the actor, or throws
StartActorReturns ==
  /\ Alive /\ pc = "startDomainActor"
  /\ \E ok \in BOOLEAN :
       /\ IF ok
          THEN /\ actorStarted' = TRUE
               /\ setupStatus' = "loading_actor"
               /\ wire' = Sent(wire, RequestAfter(pc))
               /\ pc' = "getChatStateActorId"
               /\ UNCHANGED isGenerating
          ELSE /\ SetupFails
               /\ UNCHANGED <<actorStarted, wire>>
  /\ UNCHANGED <<messages, clock, last, ui, mode, actorHasExited, workflowCompleted,
                 currentMode, client, session, channel, closureVars, mounted,
                 streamOpen, pendingSends, stopping, timers, exitCode>>

\* the values setSetupStatus is called with, in order, between the return of
\* getChatStateActorId and the call of openChannelStream
StatusesAfterId(variant) ==
  IF variant = "autoexit" THEN <<"ready", "opening_channel">>
  ELSE <<"opening_channel">>

\* getChatStateActorId returns the id: setSession, 'opening_channel',
\* openChannelStream is called; or it throws.  last keeps the statuses the
\* stretch went through
GetIdReturns ==
  /\ Alive /\ pc = "getChatStateActorId"
  /\ \E response \in IdResponses :
       /\ IF getChatStateActorId(response) = "ok"
          THEN /\ session' = TRUE
               /\ setupStatus' = StatusesAfterId(ui)[Len(StatusesAfterId(ui))]
               /\ wire' = Sent(wire, RequestAfter(pc))
               /\ pc' = "openChannelStream"
               /\ UNCHANGED isGenerating
          ELSE /\ SetupFails
               /\ UNCHANGED <<session, wire>>
       /\ last' = [op |-> "getChatStateActorId", response |-> response,
                   statuses |-> IF getChatStateActorId(response) = "ok"
                                THEN StatusesAfterId(ui) ELSE <<"error">>]
  /\ UNCHANGED <<messages, clock, ui, mode, actorHasExited, workflowCompleted,
                 currentMode, client, channel, closureVars, mounted,
                 actorStarted, streamOpen, pendingSends, stopping, timers,
                 exitCode>>

\* openChannelStream returns the stream: onMessage is registered, setChannel,
\* isGenerating is set in task / workflow mode, startGitWorkflow is called;
\* or it throws
OpenChannelReturns ==
  /\ Alive /\ pc = "openChannelStream"
  /\ \E ok \in BOOLEAN :
       /\ IF ok
          THEN /\ setupStatus' = "loading_actor"
               /\ streamOpen' = TRUE
               /\ channel' = TRUE
               /\ isGenerating' = IF mode = AutoMode(ui) THEN TRUE ELSE isGenerating
               /\ wire' = Sent(wire, RequestAfter(pc))
               /\ pc' = "startGitWorkflow"
          ELSE /\ SetupFails
               /\ UNCHANGED <<streamOpen, channel, wire>>
  /\ UNCHANGED <<messages, clock, last, ui, mode, actorHasExited, workflowCompleted,
                 currentMode, client, session, closureVars, mounted,
                 actorStarted, pendingSends, stopping, timers, exitCode>>

\* startGitWorkflow returns on Success ('ready'), or throws and the catch
\* words the error into setupMessage
StartWorkflowReturns ==
  /\ Alive /\ pc = "startGitWorkflow"
  /\ \E response \in ChatResponses :
       LET outcome == startGitWorkflow(response)
       IN /\ IF outcome = "ok"
             THEN /\ setupStatus' = "ready"
                  /\ pc' = "done"
                  /\ UNCHANGED isGenerating
             ELSE SetupFails
          /\ last' = [op |-> "startGitWorkflow", response |-> response,
                      setupMessage |->
                        IF outcome = "ok" THEN <<"Starting workflow...">>
                        ELSE <<"Error: ">> \o ErrorText(ui, ThrownError(outcome))]
  /\ UNCHANGED <<messages, clock, ui, mode, actorHasExited, workflowCompleted,
                 currentMode, client, session, channel, closureVars, mounted,
                 transportVars, timers, exitCode>>

(***************************************************************************)
(* The stream frame handler.                                               *)
(***************************************************************************)
OnMessage ==
  /\ Alive /\ streamOpen /\ Len(messages) < MaxFrames
  /\ \E frame \in SessionFrames :
       LET result == onMessage(ui, frame, messages, isGenerating, clock)
       IN /\ messages' = result.messages
          /\ isGenerating' = result.isGenerating
          /\ last' = [op |-> "onMessage", frame |-> frame]
  /\ UNCHANGED <<clock, ui, mode, actorHasExited, workflowCompleted,
                 currentMode, setupStatus, client, session, channel, pc,
                 closureVars, mounted, transportVars, timers, exitCode>>

(***************************************************************************)
(* The process around the component: the transport requests issued, the    *)
(* cleanups suspended in stopActor, the ink mount and process.exit.        *)
(***************************************************************************)
Proc ==
  [wire |-> wire, streamOpen |-> streamOpen, stopping |-> stopping,
   mounted |-> mounted, exitCode |-> exitCode, by |-> "none"]

Apply(p) ==
  /\ wire' = p.wire
  /\ streamOpen' = p.streamOpen
  /\ stopping' = p.stopping
  /\ mounted' = p.mounted
  /\ exitCode' = p.exitCode

\* process.exit(code): the process is gone and its state with it; what is
\* left is what the transport was sent and the exit code
ProcessExit(p) ==
  /\ exitCode' = p.exitCode
  /\ wire' = p.wire
  /\ streamOpen' = FALSE
  /\ mounted' = FALSE
  /\ stopping' = <<>>
  /\ timers' = <<>>
  /\ pendingSends' = 0
  /\ messages' = <<>>
  /\ isGenerating' = FALSE
  /\ actorHasExited' = FALSE
  /\ workflowCompleted' = FALSE
  /\ currentMode' = mode
  /\ setupStatus' = "connecting"
  /\ client' = FALSE
  /\ session' = FALSE
  /\ channel' = FALSE
  /\ pc' = "exited"
  /\ rendered' = [client |-> FALSE, session |-> FALSE, channel |-> FALSE,
                  isGenerating |-> FALSE, actorHasExited |-> FALSE,
                  workflowCompleted |-> FALSE, currentMode |-> mode,
                  ready |-> FALSE, lastIsAssistant |-> FALSE]
  /\ effectCleanup' = NoCleanup
  /\ appCleanup' = NoCleanup
  /\ last' = [op |-> "exit", by |-> p.by]
  /\ UNCHANGED <<clock, ui, mode, actorStarted>>

\* the step ends in p: either the process has exited, or it goes on from p
\* with the rest of the step's updates
Settle(p, rest) ==
  IF p.exitCode # NotExited THEN ProcessExit(p) ELSE Apply(p) /\ rest

\* app.unmount(): the unmount effect closes the channel its render saw
Unmount(p) ==
  IF ~p.mounted THEN p
  ELSE IF rendered.channel
  THEN [p EXCEPT !.mounted = FALSE, !.wire = Sent(@, "close"),
                 !.streamOpen = FALSE]
  ELSE [p EXCEPT !.mounted = FALSE]

\* what follows a cleanup: app.unmount() (renderGitChatApp's finally), then
\* process.exit(code) where the caller has one
Resume(p, k) ==
  LET q == IF k.unmount THEN Unmount(p) ELSE p
  IN IF k.exit # NotExited
     THEN [q EXCEPT !.exitCode = k.exit, !.by = k.by]
     ELSE q

\* cleanup() / gracefulExit() as closed over c, followed by k: the channel
\* is closed, and stopActor is awaited only where session and client are set
RunCleanup(p, c, k) ==
  LET closed == IF c.channel
                THEN [p EXCEPT !.wire = Sent(@, "close"), !.streamOpen = FALSE]
                ELSE p
  IN IF c.session /\ c.client
     THEN [closed EXCEPT !.wire = Sent(@, "stop"),
                         !.stopping = Append(@, k)]
     ELSE Resume(closed, k)

\* actor.stop() settles (resolved or rejected: the error is swallowed) and
\* the suspended cleanup goes on
StopReturns ==
  /\ Alive /\ stopping # <<>>
  /\ \E i \in 1..Len(stopping), ok \in BOOLEAN :
       Settle(Resume([Proc EXCEPT !.stopping = RemoveAt(stopping, i)],
                     stopping[i]),
              UNCHANGED <<messages, clock, last, ui, mode, reactVars, pc,
                          closureVars, actorStarted, pendingSends, timers>>)

(***************************************************************************)
(* Actor lifecycle callbacks (lifecycle UI only).                          *)
(***************************************************************************)
ExitResults == {"Success", "Error"}
ActorErrors == {WitError("paused"), NativeError(<<"boom">>)}

Timer(code, delay) == [code |-> code, delay |-> delay]

ShutDownText == <<"Git assistant has shut down.">>

\* onActorExit(result), delivered while fewer than bound timers are set
OnActorExitWithin(bound) ==
  /\ Alive /\ ui = "lifecycle" /\ actorStarted /\ Len(timers) < bound
  /\ \E result \in ExitResults :
       /\ IF result = "Success" /\ mode = "task"
          THEN /\ workflowCompleted' = TRUE
               /\ UNCHANGED messages
          ELSE /\ messages' = addMessage(messages, "system", ShutDownText,
                                         "complete", NoTool, <<>>, clock)
               /\ UNCHANGED workflowCompleted
       /\ last' = [op |-> "onActorExit", result |-> result]
  /\ actorHasExited' = TRUE
  /\ isGenerating' = FALSE
  /\ timers' = Append(timers, Timer(0, ExitTimerDelay))
  /\ UNCHANGED <<clock, ui, mode, currentMode, setupStatus, client, session,
                 channel, pc, closureVars, mounted, transportVars, exitCode>>

OnActorExit == OnActorExitWithin(MaxCallbacks)

\* onActorError(error) for one of errors; where formatActorError throws, the
\* callback ends there, before the error entry and the shutdown timer
OnActorErrorWithin(errors, bound) ==
  /\ Alive /\ ui = "lifecycle" /\ actorStarted /\ Len(timers) < bound
  /\ \E error \in errors :
       LET errorMessage == formatActorError(error)
       IN /\ IF errorMessage.threw
             THEN UNCHANGED <<messages, timers>>
             ELSE /\ messages' =
                       addMessage(messages, "error",
                                  <<"Git assistant error: ">> \o errorMessage.value.s,
                                  "complete", NoTool, <<>>, clock)
                  /\ timers' = Append(timers, Timer(1, ErrorTimerDelay))
          /\ last' = [op |-> "onActorError", error |-> error]
  /\ actorHasExited' = TRUE
  /\ isGenerating' = FALSE
  /\ UNCHANGED <<clock, ui, mode, workflowCompleted, currentMode, setupStatus,
                 client, session, channel, pc, closureVars, mounted,
                 transportVars, exitCode>>

OnActorError == OnActorErrorWithin(ActorErrors, MaxCallbacks)

\* onActorEvent(event): logs in verbose mode, changes nothing
OnActorEvent ==
  /\ Alive /\ ui = "lifecycle" /\ actorStarted
  /\ UNCHANGED <<messages, clock, last, ui, mode, reactVars, pc, closureVars,
                 mounted, transportVars, timers, exitCode>>

\* a timer may fire once no timer set before it is due earlier or together
Due(i) == \A j \in 1..(i - 1) : timers[j].delay > timers[i].delay

\* setTimeout(async () => { await cleanup(); process.exit(code) }, delay),
\* with the cleanup the setup effect closed over
TimerFires ==
  /\ Alive /\ timers # <<>>
  /\ \E i \in 1..Len(timers) :
       /\ Due(i)
       /\ Settle(RunCleanup(Proc, effectCleanup, Then(timers[i].code, FALSE, "timer")),
                 /\ timers' = RemoveAt(timers, i)
                 /\ UNCHANGED <<messages, clock, last, ui, mode, reactVars,
                                pc, closureVars, actorStarted, pendingSends>>)

(***************************************************************************)
(* Render: the component function runs over the current state, the input   *)
(* and the shortcuts get the callbacks it creates, and its effects run.    *)
(***************************************************************************)
\* the dependencies of the auto-exit effect changed since the last render
AutoExitDepsChanged ==
  <<rendered.workflowCompleted, rendered.currentMode, rendered.client,
    rendered.session>>
    # <<Snapshot.workflowCompleted, currentMode, client, session>>

\* useEffect: if (workflowCompleted && currentMode === 'workflow') gracefulExit(0)
AutoExitRuns ==
  /\ ui = "autoexit"
  /\ AutoExitDepsChanged
  /\ workflowCompleted /\ currentMode = "workflow"

\* a plausible slip: completion detected without looking at isGenerating
CompletionDetectedWhileGenerating ==
  /\ ui = "autoexit"
  /\ currentMode = "workflow"
  /\ Len(messages) > 0 /\ messages[Len(messages)].role = "assistant"

\* useEffect: workflow completion detection
CompletionDetected ==
  /\ ui = "autoexit"
  /\ currentMode = "workflow" /\ ~isGenerating
  /\ Len(messages) > 0 /\ messages[Len(messages)].role = "assistant"

Render ==
  /\ Alive /\ mounted /\ rendered # Snapshot
  /\ Settle(IF AutoExitRuns
            THEN RunCleanup(Proc, CleanupOf(Snapshot), Then(0, FALSE, "autoExit"))
            ELSE Proc,
            /\ rendered' = Snapshot
            \* useEffect: if (client && session && onCleanupReady)
            \*              onCleanupReady(cleanup)
            /\ appCleanup' = IF ui = "lifecycle" /\ client /\ session
                             THEN CleanupOf(Snapshot) ELSE appCleanup
            /\ workflowCompleted' =
                 IF CompletionDetected THEN TRUE ELSE workflowCompleted
            /\ UNCHANGED <<messages, clock, last, ui, mode, isGenerating,
                           actorHasExited, currentMode, setupStatus, client,
                           session, channel, pc, effectCleanup, actorStarted,
                           pendingSends, timers>>)

(***************************************************************************)
(* sendMessage, as the input holds it.  The input is on screen once a      *)
(* render saw setupStatus 'ready' (in interactive mode, or with the help   *)
(* panel open).                                                            *)
(***************************************************************************)
Texts == {<<" ">>, <<"hi">>}

\* if (!channel || !messageText.trim() || isGenerating || actorHasExited) return
\* over the state the callback closed over
SendRejected(snap, text) ==
  \/ ~snap.channel
  \/ ~NonBlank(text)
  \/ snap.isGenerating
  \/ (ui = "lifecycle" /\ snap.actorHasExited)

\* a plausible slip: the user's message also added to the transcript locally
SendMessageLocalEcho ==
  /\ Alive /\ mounted /\ rendered.ready
  /\ \E text \in Texts :
       LET rejected == SendRejected(rendered, text)
       IN /\ rejected \/ wire["AddMessage"] < MaxSends
          /\ IF rejected
             THEN UNCHANGED <<messages, isGenerating, wire, pendingSends>>
             ELSE /\ messages' = addMessage(messages, "user", text, "complete",
                                            NoTool, <<>>, clock)
                  /\ isGenerating' = TRUE
                  /\ wire' = Sent(wire, "AddMessage")
                  /\ pendingSends' = pendingSends + 1
  /\ UNCHANGED <<clock, last, ui, mode, actorHasExited, workflowCompleted,
                 currentMode, setupStatus, client, session, channel, pc,
                 closureVars, mounted, actorStarted, streamOpen, stopping,
                 timers, exitCode>>

SendMessage ==
  /\ Alive /\ mounted /\ rendered.ready
  /\ \E text \in Texts :
       LET rejected == SendRejected(rendered, text)
       IN /\ rejected \/ wire["AddMessage"] < MaxSends
          /\ IF rejected
             THEN UNCHANGED <<isGenerating, wire, pendingSends>>
             ELSE /\ isGenerating' = TRUE
                  /\ wire' = Sent(wire, "AddMessage")
                  /\ pendingSends' = pendingSends + 1
  /\ UNCHANGED <<messages, clock, last, ui, mode, actorHasExited, workflowCompleted,
                 currentMode, setupStatus, client, session, channel, pc,
                 closureVars, mounted, actorStarted, streamOpen, stopping,
                 timers, exitCode>>

\* client.sendMessage settles: on anything but Success the catch appends an
\* error entry and clears isGenerating
SendReturns ==
  /\ Alive /\ pendingSends > 0
  /\ pendingSends' = pendingSends - 1
  /\ \E response \in ChatResponses :
       LET outcome == sendMessage(response)
       IN /\ IF outcome = "ok"
             THEN UNCHANGED <<messages, isGenerating>>
             ELSE /\ messages' =
                       addMessage(messages, ErrorRole(ui),
                                  <<"Error sending message: ">>
                                    \o ErrorText(ui, ThrownError(outcome)),
                                  "complete", NoTool, <<>>, clock)
                  /\ isGenerating' = FALSE
          /\ last' = [op |-> "sendMessage", response |-> response]
  /\ UNCHANGED <<clock, ui, mode, actorHasExited, workflowCompleted,
                 currentMode, setupStatus, client, session, channel, pc,
                 closureVars, mounted, actorStarted, streamOpen, wire,
                 stopping, timers, exitCode>>

(***************************************************************************)
(* Keyboard shortcuts, signals and the end of render().                    *)
(***************************************************************************)
\* commonShortcuts.clear(clearMessages)
ClearShortcut ==
  /\ Alive /\ mounted /\ messages # <<>>
  /\ messages' = clearMessages(messages)
  /\ UNCHANGED <<clock, last, ui, mode, reactVars, pc, closureVars, mounted,
                 transportVars, timers, exitCode>>

\* 'i': if (currentMode === 'task' | 'workflow') setCurrentMode('interactive')
SwitchInteractive ==
  /\ Alive /\ mounted
  /\ rendered.currentMode = AutoMode(ui) /\ currentMode # "interactive"
  /\ currentMode' = "interactive"
  /\ UNCHANGED <<messages, clock, last, ui, mode, isGenerating, actorHasExited,
                 workflowCompleted, setupStatus, client, session, channel,
                 pc, closureVars, mounted, transportVars, timers, exitCode>>

\* commonShortcuts.exit: await cleanup(); process.exit(0)  /  gracefulExit(0)
ExitShortcut ==
  /\ Alive /\ mounted /\ wire["stop"] < MaxInterrupts
  /\ Settle(RunCleanup(Proc, CleanupOf(rendered), Then(0, FALSE, "exitShortcut")),
            UNCHANGED <<messages, clock, last, ui, mode, reactVars, pc,
                        closureVars, actorStarted, pendingSends, timers>>)

SigInt == 130
SigTerm == 143

\* renderGitChatApp's cleanup: appCleanup if set, then app.unmount()
OuterCleanup(p, code) ==
  IF ui = "lifecycle"
  THEN RunCleanup(p, appCleanup, Then(code, TRUE, "signal"))
  ELSE Unmount(p)

\* SIGINT / SIGTERM: handleSignal (cleanup, then process.exit(130 | 143)) in
\* the lifecycle UI, cleanup alone in the auto-exit UI
Signal ==
  /\ Alive /\ wire["stop"] < MaxInterrupts
  /\ \E code \in {SigInt, SigTerm} :
       Settle(OuterCleanup(Proc, code),
              UNCHANGED <<messages, clock, last, ui, mode, reactVars, pc,
                          closureVars, actorStarted, pendingSends, timers>>)

\* ink ends the app itself (Ctrl+C with exitOnCtrlC): waitUntilExit resolves
\* and the finally of renderGitChatApp runs cleanup
WaitUntilExit ==
  /\ Alive /\ mounted /\ wire["stop"] < MaxInterrupts
  /\ Settle(OuterCleanup(Unmount(Proc), NotExited),
            UNCHANGED <<messages, clock, last, ui, mode, reactVars, pc,
                        closureVars, actorStarted, pendingSends, timers>>)

Next ==
  \/ SetupStart
  \/ StartActorReturns
  \/ GetIdReturns
  \/ OpenChannelReturns
  \/ StartWorkflowReturns
  \/ OnMessage
  \/ Render
  \/ SendMessage
  \/ SendReturns
  \/ OnActorExit
  \/ OnActorError
  \/ OnActorEvent
  \/ TimerFires
  \/ StopReturns
  \/ ClearShortcut
  \/ SwitchInteractive
  \/ ExitShortcut
  \/ Signal
  \/ WaitUntilExit

Spec == Init /\ [][Next]_vars

(***************************************************************************)
(* The message store on its own: any sequence of its operations, applied   *)
(* to the empty transcript.                                                *)
(***************************************************************************)
StoreRoles == {"user", "assistant"}
StoreContents == {<<>>, <<"a">>}
StoreTools == {<<"t", "1">>}

\* the store of a freshly mounted app; the session stands still
StoreInit ==
  /\ Init
  /\ ui = "lifecycle"
  /\ mode = "interactive"

StoreTick ==
  /\ clock < MaxClock
  /\ clock' = clock + 1
  /\ last' = [op |-> "tick"]
  /\ UNCHANGED messages

StoreAddMessage ==
  /\ Len(messages) < MaxLen
  /\ \E role \in StoreRoles, content \in StoreContents, status \in Statuses :
       /\ messages' = addMessage(messages, role, content, status, NoTool, <<>>, clock)
       /\ last' = [op |-> "addMessage"]
  /\ UNCHANGED clock

StoreAddPendingMessage ==
  /\ Len(messages) < MaxLen
  /\ \E role \in StoreRoles, content \in StoreContents :
       /\ messages' = addPendingMessage(messages, role, content, clock)
       /\ last' = [op |-> "addPendingMessage"]
  /\ UNCHANGED clock

StoreUpdateLastPendingMessage ==
  /\ \E content \in StoreContents, status \in Statuses :
       /\ messages' = updateLastPendingMessage(messages, content, status)
       /\ last' = [op |-> "updateLastPendingMessage", content |-> content,
                   status |-> status]
  /\ UNCHANGED clock

StoreUpdateLastPendingMessageContent ==
  /\ \E content \in StoreContents :
       /\ messages' = updateLastPendingMessageContent(messages, content)
       /\ last' = [op |-> "updateLastPendingMessageContent",
                   content |-> content]
  /\ UNCHANGED clock

StoreAddToolMessage ==
  /\ Len(messages) < MaxLen
  /\ \E toolName \in StoreTools :
       /\ messages' = addToolMessage(messages, toolName, <<>>, clock)
       /\ last' = [op |-> "addToolMessage"]
  /\ UNCHANGED clock

StoreClearMessages ==
  /\ messages' = clearMessages(messages)
  /\ last' = [op |-> "clearMessages"]
  /\ UNCHANGED clock

StoreRemoveMessage ==
  /\ \E index \in 0..MaxLen :
       /\ messages' = removeMessage(messages, index)
       /\ last' = [op |-> "removeMessage"]
  /\ UNCHANGED clock

StoreNext ==
  \/ StoreTick
  \/ StoreAddMessage
  \/ StoreAddPendingMessage
  \/ StoreUpdateLastPendingMessage
  \/ StoreUpdateLastPendingMessageContent
  \/ StoreAddToolMessage
  \/ StoreClearMessages
  \/ StoreRemoveMessage

SpecStore == StoreInit /\ [][StoreNext /\ UNCHANGED sessionVars]_vars

(***************************************************************************)
(* The stream frame handler on its own: a session whose setup went through *)
(* and was rendered, driven with every kind of frame.  The clock advances  *)
(* with each frame.                                                        *)
(***************************************************************************)
SetupRequests ==
  [r \in Requests |->
     IF r \in {"startActor", "GetChatStateActorId", "openChannel", "StartChat"}
     THEN 1 ELSE 0]

StreamInit ==
  /\ messages = <<>>
  /\ clock = 0
  /\ last = [op |-> "init"]
  /\ ui \in Variants
  /\ mode \in Modes(ui)
  /\ isGenerating = (mode = AutoMode(ui))
  /\ actorHasExited = FALSE
  /\ workflowCompleted = FALSE
  /\ currentMode = mode
  /\ setupStatus = "ready"
  /\ client = TRUE
  /\ session = TRUE
  /\ channel = TRUE
  /\ pc = "done"
  /\ rendered = Snapshot
  /\ effectCleanup = NoCleanup
  /\ appCleanup = IF ui = "lifecycle" THEN CleanupOf(Snapshot) ELSE NoCleanup
  /\ mounted = TRUE
  /\ actorStarted = TRUE
  /\ streamOpen = TRUE
  /\ wire = SetupRequests
  /\ pendingSends = 0
  /\ stopping = <<>>
  /\ timers = <<>>
  /\ exitCode = NotExited

StreamFrame ==
  /\ streamOpen /\ clock < MaxStreamFrames
  /\ \E frame \in Frames :
       LET result == onMessage(ui, frame, messages, isGenerating, clock)
       IN /\ messages' = result.messages
          /\ isGenerating' = result.isGenerating
          /\ last' = [op |-> "onMessage", frame |-> frame]
  /\ clock' = clock + 1
  /\ UNCHANGED <<ui, mode, actorHasExited, workflowCompleted, currentMode,
                 setupStatus, client, session, channel, pc, closureVars,
                 mounted, transportVars, timers, exitCode>>

\* what an actor reports on its event channel
ActorEvents == {Str(<<"state-changed">>), Object(<<Entry("type", Str(<<"log">>))>>)}

\* the state of the component a lifecycle callback can set
CallbackState ==
  [messages |-> messages, isGenerating |-> isGenerating,
   actorHasExited |-> actorHasExited, workflowCompleted |-> workflowCompleted]

\* a plausible slip: an event taken for the end of the actor
onActorEventAsExit(event, verbose, state) ==
  [state |-> [state EXCEPT !.actorHasExited = TRUE, !.isGenerating = FALSE],
   console |-> IF verbose THEN <<"Domain actor event:", event>> ELSE <<>>]

\* onActorEvent(event): if (options.verbose) console.log(...); no setter is
\* called
onActorEvent(event, verbose, state) ==
  [state |-> state,
   console |-> IF verbose THEN <<"Domain actor event:", event>> ELSE <<>>]

\* the transport's onEvent: if (callbacks?.onActorEvent)
\* callbacks.onActorEvent(event); only the lifecycle UI passes callbacks
StreamEvent ==
  /\ actorStarted
  /\ \E event \in ActorEvents, verbose \in BOOLEAN :
       LET result == IF ui = "lifecycle"
                     THEN onActorEvent(event, verbose, CallbackState)
                     ELSE [state |-> CallbackState, console |-> <<>>]
       IN /\ messages' = result.state.messages
          /\ isGenerating' = result.state.isGenerating
          /\ actorHasExited' = result.state.actorHasExited
          /\ workflowCompleted' = result.state.workflowCompleted
          /\ last' = [op |-> "onActorEvent", event |-> event,
                      console |-> result.console]
  /\ UNCHANGED <<clock, ui, mode, currentMode, setupStatus, client, session,
                 channel, pc, closureVars, mounted, transportVars, timers,
                 exitCode>>

StreamNext ==
  \/ StreamFrame
  \/ StreamEvent

SpecStream == StreamInit /\ [][StreamNext]_vars

(***************************************************************************)
(* The error classifier on its own: formatActorError applied to one error  *)
(* value.  last holds the value, then the value with what the call         *)
(* returned or threw.                                                      *)
(***************************************************************************)
\* the values a payload byte takes
PayloadBytes == {0, 1, 255}

\* every operation-timeout payload of 8 such bytes
TimeoutPayloads == [1..8 -> PayloadBytes]

\* the bytes of {"description":"d"}, {"description":5}, {} and null
DescriptionJson ==
  <<123, 34, 100, 101, 115, 99, 114, 105, 112, 116, 105, 111, 110, 34, 58,
    34, 100, 34, 125>>
NumberDescriptionJson ==
  <<123, 34, 100, 101, 115, 99, 114, 105, 112, 116, 105, 111, 110, 34, 58,
    53, 125>>
EmptyObjectJson == <<123, 125>>
NullJson == <<110, 117, 108, 108>>

\* data as an actor may send it: absent (undefined), null, byte arrays that
\* are empty, too short, too long, text, not UTF-8, JSON, and a number
\* where an array belongs
DataSamples ==
  {Undefined, Null, Array(<<>>), Array(<<1>>), Array(<<102>>), Array(<<255>>),
   Array(<<1, 0, 0, 0, 0, 0, 0, 0, 0>>), Array(DescriptionJson),
   Array(NumberDescriptionJson), Array(EmptyObjectJson), Array(NullJson),
   Number(-1), Number(2)}

WitKinds ==
  {"operation-timeout", "channel-closed", "shutting-down", "function-not-found",
   "type-mismatch", "internal", "Internal", "serialization-error",
   "update-component-error", "paused", "weird"}

OtherErrors ==
  {NativeError(<<"boom">>), Undefined, Null, Number(5), Str(<<"oops">>),
   Array(<<1, 2>>), Object(<<>>), Object(<<Entry("a", Number(1))>>),
   Object(<<Entry("a", Number(1)), Entry("b", Null)>>),
   Object(<<Entry("error_type", Number(5))>>)}

ClassifierInputs ==
  {WitErrorData("operation-timeout", Array(bytes)) : bytes \in TimeoutPayloads}
    \cup {WitErrorData(kind, data) : kind \in WitKinds, data \in DataSamples}
    \cup {WitErrorNoData(kind) : kind \in WitKinds}
    \cup {KeyedError(kind, data) :
            kind \in {"Internal", "operation-timeout", "weird"},
            data \in DataSamples}
    \cup OtherErrors

ClassifyInit ==
  /\ messages = <<>>
  /\ clock = 0
  /\ last \in {[op |-> "error", error |-> error, threw |-> FALSE, text |-> <<>>] :
                 error \in ClassifierInputs}
  /\ ui = "lifecycle"
  /\ mode = "interactive"
  /\ isGenerating = FALSE
  /\ actorHasExited = FALSE
  /\ workflowCompleted = FALSE
  /\ currentMode = mode
  /\ setupStatus = "connecting"
  /\ client = FALSE
  /\ session = FALSE
  /\ channel = FALSE
  /\ pc = "mount"
  /\ rendered = Snapshot
  /\ effectCleanup = NoCleanup
  /\ appCleanup = NoCleanup
  /\ mounted = TRUE
  /\ actorStarted = FALSE
  /\ streamOpen = FALSE
  /\ wire = NoRequests
  /\ pendingSends = 0
  /\ stopping = <<>>
  /\ timers = <<>>
  /\ exitCode = NotExited

FormatActorError ==
  /\ last.op = "error"
  /\ LET result == formatActorError(last.error)
     IN last' = [op |-> "formatActorError", error |-> last.error,
                 threw |-> result.threw, text |-> result.value.s]
  /\ UNCHANGED <<messages, clock, sessionVars>>

ClassifyNext == FormatActorError

SpecClassify == ClassifyInit /\ [][ClassifyNext]_vars

(***************************************************************************)
(* The GitChatApp that keeps a pending assistant placeholder per turn      *)
(* (ui = "placeholder"): its frame handler and its sendMessage, from the   *)
(* state its setupChannel leaves, one placeholder in the transcript.       *)
(***************************************************************************)
\* one tool_use block and nothing else, more frames to follow
FrameToolOnly ==
  ChatFrame("Message", "assistant", "blocks",
            <<ToolUseBlock(<<"t1">>, <<"arg">>)>>, <<>>, "tool_use")
\* one text block, more frames to follow
FrameTextMore ==
  ChatFrame("Message", "assistant", "blocks", <<TextBlock(<<"a">>)>>, <<>>,
            "tool_use")

TurnFrames == Frames \cup {FrameToolOnly, FrameTextMore}

\* fullContent += block.text, over the text blocks of the frame
RECURSIVE FullContent(_)
FullContent(blocks) ==
  IF blocks = <<>> THEN <<>>
  ELSE (IF Head(blocks).type = "text" THEN Head(blocks).text ELSE <<>>)
         \o FullContent(Tail(blocks))

\* toolCalls.push({name, args}), over the tool_use blocks of the frame
ToolCalls(blocks) == SelectSeq(blocks, LAMBDA block : block.type = "tool_use")

\* for (const toolCall of toolCalls) addToolMessage(toolCall.name, toolCall.args)
RECURSIVE AddToolCalls(_, _, _)
AddToolCalls(toolCalls, msgs, ts) ==
  IF toolCalls = <<>> THEN msgs
  ELSE AddToolCalls(Tail(toolCalls),
         addToolMessage(msgs,
           IF Head(toolCalls).name # <<>> THEN Head(toolCalls).name
           ELSE <<"unknown">>,
           Head(toolCalls).input, ts),
         ts)

\* a plausible slip: the finished entry kept for the continuation
ReusesPlaceholder(stop_reason) == FALSE

\* if (stopReason && stopReason !== 'end_turn')
Continues(stop_reason) == stop_reason \notin {"none", "end_turn"}

\* channelStream.onMessage of this GitChatApp: user frames are skipped, the
\* text of the frame fills the last pending entry, its tool calls are added,
\* and a stop reason other than end_turn opens the next placeholder
onMessagePending(frame, msgs, generating, ts) ==
  IF ~frame.decodable
  THEN [messages |-> addMessage(msgs, "system",
                                <<"Error: ">> \o errorMessageOf(SyntaxError),
                                "complete", NoTool, <<>>, ts),
        isGenerating |-> FALSE]
  ELSE IF Recognized(frame) /\ ~IsUserMessage(frame)
  THEN LET filled ==
             IF frame.contentKind = "blocks" /\ NonBlank(FullContent(frame.blocks))
             THEN updateLastPendingMessage(msgs, FullContent(frame.blocks),
                                           "complete")
             ELSE msgs
           withTools ==
             IF frame.contentKind = "blocks"
             THEN AddToolCalls(ToolCalls(frame.blocks), filled, ts)
             ELSE filled
       IN IF Continues(frame.stop_reason)
          THEN [messages |-> addPendingMessage(withTools, "assistant", <<>>, ts),
                isGenerating |-> generating]
          ELSE [messages |-> withTools, isGenerating |-> FALSE]
  ELSE [messages |-> msgs, isGenerating |-> generating]

\* setupChannel has registered the handler, set the channel and added the
\* first placeholder; startGitWorkflow has returned
TurnInit ==
  /\ messages = addPendingMessage(<<>>, "assistant", <<>>, 0)
  /\ clock = 1
  /\ last = [op |-> "init"]
  /\ ui = "placeholder"
  /\ mode = "interactive"
  /\ isGenerating = FALSE
  /\ actorHasExited = FALSE
  /\ workflowCompleted = FALSE
  /\ currentMode = mode
  /\ setupStatus = "ready"
  /\ client = TRUE
  /\ session = TRUE
  /\ channel = TRUE
  /\ pc = "done"
  /\ rendered = Snapshot
  /\ effectCleanup = NoCleanup
  /\ appCleanup = NoCleanup
  /\ mounted = TRUE
  /\ actorStarted = TRUE
  /\ streamOpen = TRUE
  /\ wire = [NoRequests EXCEPT !["openChannel"] = 1, !["StartChat"] = 1]
  /\ pendingSends = 0
  /\ stopping = <<>>
  /\ timers = <<>>
  /\ exitCode = NotExited

TurnFrame ==
  /\ clock <= MaxTurnSteps
  /\ \E frame \in TurnFrames :
       LET result == onMessagePending(frame, messages, isGenerating, clock)
       IN /\ messages' = result.messages
          /\ isGenerating' = result.isGenerating
          /\ last' = [op |-> "onMessage", frame |-> frame]
  /\ clock' = clock + 1
  /\ UNCHANGED <<ui, mode, actorHasExited, workflowCompleted, currentMode,
                 setupStatus, client, session, channel, pc, closureVars,
                 mounted, transportVars, timers, exitCode>>

\* sendMessage of this GitChatApp: the user's message and the placeholder of
\* the answer are added before the request is awaited
TurnSend ==
  /\ clock <= MaxTurnSteps
  /\ channel
  /\ messages' = addPendingMessage(
                   addMessage(messages, "user", <<"hi">>, "complete", NoTool,
                              <<>>, clock),
                   "assistant", <<>>, clock)
  /\ isGenerating' = TRUE
  /\ wire' = Sent(wire, "AddMessage")
  /\ pendingSends' = pendingSends + 1
  /\ last' = [op |-> "send"]
  /\ clock' = clock + 1
  /\ UNCHANGED <<ui, mode, actorHasExited, workflowCompleted, currentMode,
                 setupStatus, client, session, channel, pc, closureVars,
                 mounted, actorStarted, streamOpen, stopping, timers, exitCode>>

\* client.sendMessage settles; the catch adds a system entry
TurnSendReturns ==
  /\ clock <= MaxTurnSteps
  /\ pendingSends > 0
  /\ pendingSends' = pendingSends - 1
  /\ \E response \in ChatResponses :
       LET outcome == sendMessage(response)
       IN /\ IF outcome = "ok"
             THEN UNCHANGED <<messages, isGenerating>>
             ELSE /\ messages' =
                       addMessage(messages, "system",
                                  <<"Error sending message: ">>
                                    \o errorMessageOf(ThrownError(outcome)),
                                  "complete", NoTool, <<>>, clock)
                  /\ isGenerating' = FALSE
          /\ last' = [op |-> "sendMessage", response |-> response]
  /\ clock' = clock + 1
  /\ UNCHANGED <<ui, mode, actorHasExited, workflowCompleted, currentMode,
                 setupStatus, client, session, channel, pc, closureVars,
                 mounted, actorStarted, streamOpen, wire, stopping, timers,
                 exitCode>>

TurnNext ==
  \/ TurnFrame
  \/ TurnSend
  \/ TurnSendReturns

SpecTurns == TurnInit /\ [][TurnNext]_vars

(***************************************************************************)
(* cleanup() of the lifecycle GitChatApp on its own, step by step: the     *)
(* synchronous stretch up to `await client.stopActor(...)`, then the       *)
(* settling of actor.stop().  effectCleanup is what the cleanup closed     *)
(* over; last holds the requests of the call in the order they were made.  *)
(***************************************************************************)
\* client, session and channel are set in this order, so a cleanup closed
\* over one of these
CleanupClosures ==
  {[client |-> FALSE, session |-> FALSE, channel |-> FALSE],
   [client |-> TRUE, session |-> FALSE, channel |-> FALSE],
   [client |-> TRUE, session |-> TRUE, channel |-> FALSE],
   [client |-> TRUE, session |-> TRUE, channel |-> TRUE]}

\* a plausible slip: channel.close() without its own try / catch, so that its
\* error ends the cleanup in the outer catch
cleanupCloseUnguarded(c, closeThrows) ==
  IF c.channel /\ closeThrows
  THEN [requests |-> <<"close">>, closeThrew |-> TRUE, awaits |-> FALSE,
        raised |-> FALSE]
  ELSE [requests |-> (IF c.channel THEN <<"close">> ELSE <<>>)
                       \o (IF c.session /\ c.client THEN <<"stop">> ELSE <<>>),
        closeThrew |-> FALSE,
        awaits |-> c.session /\ c.client,
        raised |-> FALSE]

\* cleanup() up to its await: the requests it makes, in order, whether
\* channel.close() threw (its own catch takes the error), whether the cleanup
\* goes on to await actor.stop(), and whether an error has left it
cleanup(c, closeThrows) ==
  LET closing == IF c.channel THEN <<"close">> ELSE <<>>
      stopActor == IF c.session /\ c.client THEN <<"stop">> ELSE <<>>
  IN [requests |-> closing \o stopActor,
      closeThrew |-> c.channel /\ closeThrows,
      awaits |-> c.session /\ c.client,
      raised |-> FALSE]

RECURSIVE SentAll(_, _)
SentAll(w, requests) ==
  IF requests = <<>> THEN w ELSE SentAll(Sent(w, Head(requests)), Tail(requests))

\* who awaits the cleanup, and the process.exit(code) that follows it: the
\* two shutdown timers, the exit shortcut, handleSignal
CleanupCallers ==
  {Then(0, FALSE, "timer"), Then(1, FALSE, "timer"),
   Then(0, FALSE, "exitShortcut"), Then(SigInt, TRUE, "signal"),
   Then(SigTerm, TRUE, "signal")}

CleanupInit ==
  /\ messages = <<>>
  /\ clock = 0
  /\ last = [op |-> "init"]
  /\ ui = "lifecycle"
  /\ mode = "interactive"
  /\ isGenerating = FALSE
  /\ actorHasExited = FALSE
  /\ workflowCompleted = FALSE
  /\ currentMode = mode
  /\ effectCleanup \in CleanupClosures
  /\ client = effectCleanup.client
  /\ session = effectCleanup.session
  /\ channel \in {effectCleanup.channel, session}
  /\ setupStatus = IF channel THEN "ready" ELSE "loading_actor"
  /\ pc = "cleanup"
  /\ rendered = Snapshot
  /\ appCleanup = effectCleanup
  /\ mounted = TRUE
  /\ actorStarted \in {session, FALSE}
  /\ streamOpen = channel
  /\ wire = NoRequests
  /\ pendingSends = 0
  /\ stopping = <<>>
  /\ timers = <<>>
  /\ exitCode = NotExited

\* cleanup() is called: channel.close() returns or throws, then stopActor is
\* called and awaited, or the cleanup returns
CleanupCalled ==
  /\ Alive
  /\ pc \in {"cleanup", "returned"}
  /\ clock < MaxCleanups
  /\ clock' = clock + 1
  /\ \E closeThrows \in BOOLEAN, caller \in CleanupCallers :
       LET call == cleanup(effectCleanup, closeThrows)
       IN /\ last' = [op |-> "cleanup", requests |-> call.requests,
                      closeThrew |-> call.closeThrew,
                      stopRejected |-> FALSE, raised |-> call.raised]
          /\ wire' = SentAll(wire, call.requests)
          /\ streamOpen' = IF effectCleanup.channel /\ ~closeThrows
                           THEN FALSE ELSE streamOpen
          /\ pc' = IF call.awaits THEN "stopActor" ELSE "returned"
          /\ stopping' = <<caller>>
  /\ UNCHANGED <<messages, ui, mode, reactVars, closureVars, mounted,
                 actorStarted, pendingSends, timers, exitCode>>

\* actor.stop() resolves, or rejects (the actor had exited, the transport is
\* gone): the outer catch takes the error and the cleanup returns
CleanupStopSettles ==
  /\ Alive
  /\ pc = "stopActor"
  /\ \E rejects \in BOOLEAN :
       /\ last' = [last EXCEPT !.stopRejected = rejects]
       /\ actorStarted' = IF rejects THEN actorStarted ELSE FALSE
  /\ pc' = "returned"
  /\ UNCHANGED <<messages, clock, ui, mode, reactVars, closureVars, mounted,
                 streamOpen, wire, pendingSends, stopping, timers, exitCode>>

\* the caller goes on after `await cleanup()`: process.exit(code)
CleanupCallerExits ==
  /\ Alive
  /\ pc = "returned" /\ stopping # <<>>
  /\ exitCode' = stopping[1].exit
  /\ pc' = "exited"
  /\ UNCHANGED <<messages, clock, last, ui, mode, reactVars, closureVars,
                 mounted, transportVars, timers>>

CleanupNext ==
  \/ CleanupCalled
  \/ CleanupStopSettles
  \/ CleanupCallerExits

SpecCleanup == CleanupInit /\ [][CleanupNext]_vars

(***************************************************************************)
(* The shutdown of the lifecycle UI on its own: a session whose setup went *)
(* through, the two lifecycle callbacks in either order and more than      *)
(* once, stream frames in between, and the shutdown timers they set.       *)
(***************************************************************************)
\* the errors of the session specification, and one formatActorError throws on
ShutdownErrors ==
  ActorErrors \cup {WitErrorData("function-not-found", Number(-1))}

ShutdownInit ==
  /\ StreamInit
  /\ ui = "lifecycle"

ShutdownOnActorExit == OnActorExitWithin(MaxShutdownCallbacks)

ShutdownOnActorError == OnActorErrorWithin(ShutdownErrors, MaxShutdownCallbacks)

ShutdownFrame == Alive /\ StreamFrame

ShutdownNext ==
  \/ ShutdownOnActorExit
  \/ ShutdownOnActorError
  \/ ShutdownFrame
  \/ TimerFires

SpecShutdown == ShutdownInit /\ [][ShutdownNext]_vars

(***************************************************************************)
(* The turns of a session of the lifecycle UI whose setup went through:    *)
(* sends and their responses, renders, stream frames and the lifecycle     *)
(* callbacks, under a transport that goes on delivering: while a turn is   *)
(* open it eventually delivers a frame that ends the turn, an undecodable  *)
(* frame, a failed AddMessage response, or an actor exit or error.         *)
(***************************************************************************)
\* the frames after which the handler has cleared isGenerating
ClearingFrames == {FrameUndecodable, FrameDone}

LiveInit ==
  /\ StreamInit
  /\ ui = "lifecycle"

\* channelStream.onMessage(frame)
LiveFrameOf(frame) ==
  /\ Alive /\ streamOpen
  /\ clock < MaxLiveFrames \/ (isGenerating /\ frame \in ClearingFrames)
  /\ LET result == onMessage(ui, frame, messages, isGenerating, clock)
     IN /\ messages' = result.messages
        /\ isGenerating' = result.isGenerating
        /\ last' = [op |-> "onMessage", frame |-> frame]
  /\ clock' = IF clock < MaxLiveFrames THEN clock + 1 ELSE clock
  /\ UNCHANGED <<ui, mode, actorHasExited, workflowCompleted, currentMode,
                 setupStatus, client, session, channel, pc, closureVars,
                 mounted, transportVars, timers, exitCode>>

LiveFrame == \E frame \in Frames : LiveFrameOf(frame)

\* client.sendMessage settles with a throw
SendFails == SendReturns /\ sendMessage(last'.response) # "ok"

\* the transport delivers what ends the turn in progress
ClearingDelivery ==
  /\ isGenerating
  /\ \/ \E frame \in ClearingFrames : LiveFrameOf(frame)
     \/ SendFails
     \/ OnActorExit
     \/ OnActorError

LiveNext ==
  \/ LiveFrame
  \/ SendMessage
  \/ SendReturns
  \/ Render
  \/ OnActorExit
  \/ OnActorError
  \/ TimerFires

SpecLive == LiveInit /\ [][LiveNext]_vars /\ WF_vars(ClearingDelivery)

(***************************************************************************)
(* GitTheaterClient.startGitSession: the three handlers it hands to the    *)
(* transport's startActor, over the callbacks its caller passed.  last     *)
(* keeps the callbacks, the last delivery, the user callbacks it invoked   *)
(* and the console method it wrote with.                                   *)
(***************************************************************************)
\* callbacks?: ActorLifecycleCallbacks, each member optional; given is FALSE
\* where the argument was left out
NoCallbacks ==
  [given |-> FALSE, onActorExit |-> FALSE, onActorError |-> FALSE,
   onActorEvent |-> FALSE]

CallbackSets ==
  {NoCallbacks} \cup
  [given : {TRUE}, onActorExit : BOOLEAN, onActorError : BOOLEAN,
   onActorEvent : BOOLEAN]

\* what the transport reports when the actor ends
ActorResult(type, error) == [type |-> type, error |-> error]

ActorResults ==
  {ActorResult("Success", Undefined), ActorResult("Stopped", Undefined)}
    \cup {ActorResult("Error", error) : error \in ActorErrors}

Call(callback, argument) == [callback |-> callback, argument |-> argument]

\* a plausible slip: every result handed to onActorExit, as startDomainActor
\* does
onActorResultAsExit(callbacks, result) ==
  [calls |-> IF callbacks.onActorExit
             THEN <<Call("onActorExit", result)>> ELSE <<>>,
   console |-> "log"]

\* onActorResult: (result) => { if (result.type === 'Error') { console.error;
\* callbacks?.onActorError(result.error) } else { console.log;
\* callbacks?.onActorExit(result) } }
onActorResult(callbacks, result) ==
  IF result.type = "Error"
  THEN [calls |-> IF callbacks.onActorError
                  THEN <<Call("onActorError", result.error)>> ELSE <<>>,
        console |-> "error"]
  ELSE [calls |-> IF callbacks.onActorExit
                  THEN <<Call("onActorExit", result)>> ELSE <<>>,
        console |-> "log"]

\* onError: (error) => { console.error; callbacks?.onActorError(error) }
onError(callbacks, error) ==
  [calls |-> IF callbacks.onActorError
             THEN <<Call("onActorError", error)>> ELSE <<>>,
   console |-> "error"]

\* onEvent: (event) => { callbacks?.onActorEvent(event); console.log }
onEvent(callbacks, event) ==
  [calls |-> IF callbacks.onActorEvent
             THEN <<Call("onActorEvent", event)>> ELSE <<>>,
   console |-> "log"]

GitSessionInit ==
  /\ messages = <<>>
  /\ clock = 0
  /\ last \in {[op |-> "startGitSession", callbacks |-> callbacks,
                delivered |-> Undefined, calls |-> <<>>, console |-> "none"] :
                 callbacks \in CallbackSets}
  /\ ui = "lifecycle"
  /\ mode = "interactive"
  /\ isGenerating = FALSE
  /\ actorHasExited = FALSE
  /\ workflowCompleted = FALSE
  /\ currentMode = mode
  /\ setupStatus = "starting_actor"
  /\ client = TRUE
  /\ session = FALSE
  /\ channel = FALSE
  /\ pc = "startGitSession"
  /\ rendered = Snapshot
  /\ effectCleanup = NoCleanup
  /\ appCleanup = NoCleanup
  /\ mounted = TRUE
  /\ actorStarted = TRUE
  /\ streamOpen = FALSE
  /\ wire = Sent(NoRequests, "startActor")
  /\ pendingSends = 0
  /\ stopping = <<>>
  /\ timers = <<>>
  /\ exitCode = NotExited

\* the transport calls handler(delivered)
Delivers(op, delivered, outcome) ==
  /\ clock < MaxDeliveries
  /\ clock' = clock + 1
  /\ last' = [op |-> op, callbacks |-> last.callbacks, delivered |-> delivered,
              calls |-> outcome.calls, console |-> outcome.console]
  /\ UNCHANGED <<messages, sessionVars>>

GitSessionResult ==
  \E result \in ActorResults :
    Delivers("onActorResult", result, onActorResult(last.callbacks, result))

GitSessionError ==
  \E error \in ActorErrors :
    Delivers("onError", error, onError(last.callbacks, error))

GitSessionEvent ==
  \E event \in ActorEvents :
    Delivers("onEvent", event, onEvent(last.callbacks, event))

GitSessionNext ==
  \/ GitSessionResult
  \/ GitSessionError
  \/ GitSessionEvent

SpecGitSession == GitSessionInit /\ [][GitSessionNext]_vars

(***************************************************************************)
(* The auto-exit UI after setup, left to itself: stream frames, renders    *)
(* with their effects, the 'i' and clear shortcuts, sends, and the         *)
(* settling of stopActor.  React renders again after a state change and    *)
(* the transport settles a stop request, so both are taken eventually.     *)
(***************************************************************************)
AutoExitInit ==
  /\ StreamInit
  /\ ui = "autoexit"

AutoExitFrame == Alive /\ StreamFrame

AutoExitNext ==
  \/ AutoExitFrame
  \/ Render
  \/ StopReturns
  \/ SwitchInteractive
  \/ ClearShortcut
  \/ SendMessage
  \/ SendReturns

SpecAutoExit ==
  AutoExitInit /\ [][AutoExitNext]_vars /\ WF_vars(Render) /\ WF_vars(StopReturns)

(***************************************************************************)
(* Shapes of one transcript change, for the claims below.                  *)
(***************************************************************************)
\* the entries of s that are pending assistant messages
PendingAssistants(s) == {i \in 1..Len(s) : IsPendingAssistant(s[i])}

\* t is s with one entry added at the end
IsAppend(s, t) == Len(t) = Len(s) + 1 /\ SubSeq(t, 1, Len(s)) = s

\* t is s with the content/status of one pending entry rewritten in place
IsPendingMutation(s, t) ==
  /\ Len(t) = Len(s)
  /\ \E i \in 1..Len(s) :
       /\ s[i].status = "pending"
       /\ t[i] = [s[i] EXCEPT !.content = t[i].content, !.status = t[i].status]
       /\ \A j \in 1..Len(s) : j # i => t[j] = s[j]

\* t is s with a tool entry put immediately before a pending assistant entry
IsToolInsertBeforePending(s, t) ==
  /\ Len(t) = Len(s) + 1
  /\ \E i \in 1..Len(s) :
       /\ IsPendingAssistant(s[i])
       /\ t[i].role = "tool"
       /\ t = InsertAt(s, i, t[i])

\* t is s emptied
IsClear(s, t) == t = <<>>

\* t is s with one entry deleted, the others kept in order
IsRemoveOne(s, t) == \E i \in 1..Len(s) : t = RemoveAt(s, i)

(***************************************************************************)
(* Claims about the message store (SpecStore).                             *)
(***************************************************************************)
\* C1: after any sequence of message-store operations applied to the empty
\* transcript, at most one entry has role assistant and status pending.
C1_AtMostOnePendingAssistant == Cardinality(PendingAssistants(messages)) <= 1

\* C9 (as stated): every change of the transcript is an append at the end, an
\* in-place rewrite of a pending entry's content/status, or the insertion of a
\* tool entry immediately before a pending assistant entry; nothing is removed.
C9_AppendOnlyAsStated ==
  [][ \/ IsAppend(messages, messages')
      \/ IsPendingMutation(messages, messages')
      \/ IsToolInsertBeforePending(messages, messages') ]_messages

\* C9 (as amended): every change of the transcript is one of the three shapes
\* above, or the transcript is emptied (clearMessages), or one entry is deleted
\* with the others kept in order (removeMessage); nothing is reordered or
\* otherwise rewritten.
C9_ChangeShapes ==
  [][ \/ IsAppend(messages, messages')
      \/ IsPendingMutation(messages, messages')
      \/ IsToolInsertBeforePending(messages, messages')
      \/ IsClear(messages, messages')
      \/ IsRemoveOne(messages, messages') ]_messages

\* C9 witness: a tool entry sits immediately before a pending assistant entry
\* that is followed by a later entry, put there by addToolMessage.
C9_Witness ==
  /\ last.op = "addToolMessage"
  /\ Len(messages) = 3
  /\ messages[1].role = "tool"
  /\ IsPendingAssistant(messages[2])

(***************************************************************************)
(* Claims about the stream frame handler (SpecStream).                     *)
(***************************************************************************)
\* the entries a step added at the end of the transcript
Added == SubSeq(messages', Len(messages) + 1, Len(messages'))

\* the step delivered this frame to the handler
Delivered(frame) ==
  /\ clock' = clock + 1
  /\ last'.op = "onMessage"
  /\ last'.frame = frame

\* C2: a frame whose assistant entry has the blocks [text "a", tool_use "t1",
\* text "b"] leaves exactly one tool message for t1 in the transcript,
\* immediately before the single assistant message produced for the entry,
\* and that assistant message's content is "ab".
C2_OneToolBeforeOneAssistant ==
  [][ Delivered(FrameTextToolText) =>
        /\ SubSeq(messages', 1, Len(messages)) = messages
        /\ Len(Added) = 2
        /\ Added[1].role = "tool" /\ Added[1].toolName = <<"t1">>
        /\ Added[2].role = "assistant" /\ Added[2].content = <<"a", "b">> ]_vars

\* C10: a frame that cannot be decoded never throws out of the handler: it
\* leaves exactly one appended entry, of role error, no other entry is
\* changed, the terminal state is unchanged and the stream stays open for
\* later frames.
C10_DecodeFailureIsOneErrorEntry ==
  [][ Delivered(FrameUndecodable) =>
        /\ IsAppend(messages, messages')
        /\ messages'[Len(messages')].role = "error"
        /\ actorHasExited' = actorHasExited
        /\ streamOpen' ]_vars

\* the frame carries an assistant Message or a Completion entry
IsAssistantFrame(frame) ==
  /\ frame.decodable
  /\ frame.type = "chat_message" /\ frame.hasMessage
  /\ ~IsUserMessage(frame)

\* C11: an assistant / completion frame clears isGenerating if and only if
\* its stop_reason is "end_turn"; with any other stop_reason, or none,
\* isGenerating is left exactly as it was.
C11_ClearedIffEndTurn ==
  [][ \A frame \in Frames :
        (Delivered(frame) /\ IsAssistantFrame(frame)) =>
          IF frame.stop_reason = "end_turn"
          THEN ~isGenerating'
          ELSE isGenerating' = isGenerating ]_vars

\* C11 witness: in a session that is generating, a frame whose stop_reason is
\* "tool_use" was delivered and isGenerating is still set.
C11_Witness ==
  /\ last.op = "onMessage"
  /\ last.frame = FrameTextToolText
  /\ isGenerating

(***************************************************************************)
(* Claims about the session (Spec).  A sendMessage call that is rejected   *)
(* changes nothing, so a call shows in a behaviour only when it is         *)
(* accepted: isGenerating is set and one more AddMessage request is sent.  *)
(***************************************************************************)
\* the step sent an AddMessage request: a sendMessage call was accepted
SendAccepted == wire'["AddMessage"] = wire["AddMessage"] + 1

\* C3: sendMessage called while isGenerating is true is rejected: no
\* AddMessage request is sent, the transcript and isGenerating are unchanged.
C3_SendWhileGeneratingRejected == [][ isGenerating => ~SendAccepted ]_vars

\* C4: once onActorExit or onActorError has fired, every later sendMessage
\* call is rejected: no AddMessage request reaches the transport.
C4_NoSendAfterTerminal == [][ actorHasExited => ~SendAccepted ]_vars

\* C5: however often and from wherever the lifecycle UI's cleanup is invoked
\* (signal handler, end of render(), exit shortcut, shutdown timer), the
\* transport is sent an actor stop at most once.
C5_StopAtMostOnce == ui = "lifecycle" => wire["stop"] <= 1

\* C6: whenever the lifecycle UI's process has exited after the remote actor
\* was started, an actor stop was sent to the transport before the exit.
C6_StopBeforeExit ==
  (ui = "lifecycle" /\ exitCode # NotExited /\ actorStarted) => wire["stop"] >= 1

\* the step is onActorError / onActorExit: it set the shutdown timer
ErrorTimerSet == timers' = Append(timers, Timer(1, ErrorTimerDelay))
ExitTimerSet == timers' = Append(timers, Timer(0, ExitTimerDelay))

\* the step is the exit of the process out of a shutdown timer
TimerExit(code) ==
  /\ exitCode = NotExited
  /\ exitCode' = code
  /\ last'.op = "exit" /\ last'.by = "timer"

PausedSentence == <<"The actor is paused and cannot process operations.">>

\* C7: onActorError(error) leaves the session terminal with isGenerating
\* false and exactly one more entry, of role error, worded by the error
\* classifier (the fixed sentence for error_type "paused"); the shutdown it
\* schedules sends an actor stop and exits the process with a non-zero code.
C7_OnActorError ==
  [][ /\ ErrorTimerSet =>
           /\ actorHasExited' /\ ~isGenerating'
           /\ IsAppend(messages, messages')
           /\ messages'[Len(messages')].role = "error"
           /\ messages'[Len(messages')].content =
                <<"Git assistant error: ">> \o formatActorError(last'.error).value.s
           /\ last'.error = WitError("paused") =>
                messages'[Len(messages')].content =
                  <<"Git assistant error: ">> \o PausedSentence
      /\ \A code \in {0, 1} :
           (TimerExit(code) /\ last.op = "onActorError") =>
             code # 0 /\ wire'["stop"] >= 1 ]_vars

\* C8: onActorExit(result) leaves the session terminal with isGenerating
\* false; a Success result in task mode marks the task completed and adds no
\* entry, anything else appends the system "shut down" entry; the shutdown it
\* schedules sends an actor stop and exits the process.
C8_OnActorExit ==
  [][ /\ ExitTimerSet =>
           /\ actorHasExited' /\ ~isGenerating'
           /\ IF last'.result = "Success" /\ mode = "task"
              THEN messages' = messages /\ workflowCompleted'
              ELSE /\ IsAppend(messages, messages')
                   /\ messages'[Len(messages')].role = "system"
                   /\ messages'[Len(messages')].content = ShutDownText
      /\ (TimerExit(0) /\ last.op = "onActorExit") => wire'["stop"] >= 1 ]_vars

(***************************************************************************)
(* Claims about session setup (Spec).                                      *)
(***************************************************************************)
\* the step sent the transport one more request r
Issued(r) == wire'[r] = wire[r] + 1

\* C12: setup issues its requests in the order start actor, GetChatStateActorId,
\* open stream, StartChat: the stream is opened only once the chat actor id
\* is resolved (the session is recorded), and StartChat is sent only once the
\* stream is open with the frame handler registered.
C12_SetupOrder ==
  [][ /\ Issued("startActor") =>
           /\ wire["GetChatStateActorId"] = 0
           /\ wire["openChannel"] = 0
           /\ wire["StartChat"] = 0
      /\ Issued("GetChatStateActorId") => actorStarted' /\ wire["openChannel"] = 0
      /\ Issued("openChannel") =>
           /\ wire["GetChatStateActorId"] = 1
           /\ last'.op = "getChatStateActorId"
           /\ last'.response = "ChatStateActorId"
           /\ session'
           /\ wire["StartChat"] = 0
      /\ Issued("StartChat") =>
           /\ wire["openChannel"] = 1
           /\ session
           /\ streamOpen' ]_vars

\* C12 witness: setup ran to 'ready' with each of the four requests sent once.
C12_Witness ==
  /\ pc = "done" /\ setupStatus = "ready" /\ session /\ streamOpen
  /\ wire["startActor"] = 1 /\ wire["GetChatStateActorId"] = 1
  /\ wire["openChannel"] = 1 /\ wire["StartChat"] = 1

\* the step is the return of getChatStateActorId / startGitWorkflow into
\* setupChannel
IdReturned == pc = "getChatStateActorId" /\ pc' \in {"openChannelStream", "failed"}
WorkflowReturned == pc = "startGitWorkflow" /\ pc' \in {"done", "failed"}

\* setup failed at getChatStateActorId
FailedAtId ==
  /\ pc = "failed"
  /\ wire["GetChatStateActorId"] = 1 /\ wire["openChannel"] = 0

\* C13: a GetChatStateActorId response that is not a ChatStateActorId with a
\* non-empty actor_id fails the session start: setup ends in the error status,
\* and from then on no session is recorded, no stream is open and no StartChat
\* request is sent.
C13_BadIdResponseFailsSetup ==
  [][ /\ (IdReturned /\ last'.response # "ChatStateActorId") =>
           /\ pc' = "failed"
           /\ setupStatus' = "error"
      /\ FailedAtId =>
           \/ /\ FailedAtId'
              /\ setupStatus' = "error"
              /\ ~session' /\ ~streamOpen'
              /\ wire'["StartChat"] = 0
           \/ exitCode' # NotExited ]_vars

\* C13 witness: the actor answered with a ChatStateActorId whose actor_id is
\* empty, and setup stands in the error status with no session.
C13_Witness ==
  /\ FailedAtId
  /\ last.op = "getChatStateActorId"
  /\ last.response = "ChatStateActorIdEmpty"
  /\ setupStatus = "error" /\ ~session /\ actorStarted

\* C14: startGitWorkflow sends one StartChat request and its outcome follows
\* the response type alone: Success completes the call (setup goes to
\* 'ready'), Error fails it with "Failed to start git workflow: <message>",
\* any other shape fails it with "Invalid response from git-chat-assistant";
\* it never completes normally on a response that is not Success.
C14_WorkflowOutcomeByResponse ==
  [][ WorkflowReturned =>
        /\ wire'["StartChat"] = 1
        /\ (pc' = "done") = (last'.response = "Success")
        /\ last'.response = "Success" => setupStatus' = "ready"
        /\ last'.response = "Error" =>
             last'.setupMessage =
               <<"Error: ", "Failed to start git workflow: ", "message">>
        /\ last'.response = "Other" =>
             last'.setupMessage =
               <<"Error: ", "Invalid response from git-chat-assistant: ",
                 "response">> ]_vars

\* C14 witness: StartChat was answered with a response that is neither
\* Success nor Error, and setup failed on it.
C14_Witness ==
  /\ pc = "failed"
  /\ last.op = "startGitWorkflow" /\ last.response = "Other"
  /\ wire["StartChat"] = 1 /\ setupStatus = "error"

\* the step is the return of client.sendMessage into sendMessage
SendReturned == pendingSends' = pendingSends - 1 /\ exitCode' = NotExited

\* the actor refused the StartChat request
StartChatRefused == WorkflowReturned /\ last'.response = "Error"

\* the actor refused an AddMessage request
AddMessageRefused == SendReturned /\ last'.response \in {"Error", "Other"}

\* C15: when the actor refuses a single control request (StartChat answered
\* with Error, AddMessage answered with anything but Success), the lifecycle
\* UI appends one entry of role error to the transcript and the session stays
\* active: the terminal state is unchanged and no shutdown is scheduled.
C15_RefusalIsErrorEntry ==
  [][ (ui = "lifecycle" /\ (StartChatRefused \/ AddMessageRefused)) =>
        /\ IsAppend(messages, messages')
        /\ messages'[Len(messages')].role = "error"
        /\ actorHasExited' = actorHasExited
        /\ timers' = timers ]_vars

(***************************************************************************)
(* Claims about sending and the echo of the user's message (Spec).         *)
(***************************************************************************)
\* the entries of s that are user messages
UserEntries(s) == {i \in 1..Len(s) : s[i].role = "user"}

\* the step delivered the echo of a user turn to the frame handler
EchoDelivered ==
  /\ last'.op = "onMessage" /\ last'.frame = FrameUser
  /\ Len(messages') > Len(messages)

\* C16: an accepted sendMessage adds nothing to the transcript; a user entry
\* enters the transcript only with a user-role entry arriving on the stream,
\* and each such frame adds exactly one user entry, at the end.
C16_EchoOnlyFromStream ==
  [][ /\ SendAccepted => messages' = messages
      /\ Cardinality(UserEntries(messages')) > Cardinality(UserEntries(messages))
           => EchoDelivered /\ wire' = wire
      /\ EchoDelivered =>
           /\ IsAppend(messages, messages')
           /\ messages'[Len(messages')].role = "user"
           /\ messages'[Len(messages')].content = FirstText(FrameUser) ]_vars

\* C16 witness: one send was accepted, its echo arrived on the stream, and the
\* transcript holds exactly one user entry.
C16_Witness ==
  /\ wire["AddMessage"] = 1
  /\ last.op = "onMessage" /\ last.frame = FrameUser
  /\ Len(messages) = 1
  /\ messages[1].role = "user" /\ messages[1].content = <<"hi">>

(***************************************************************************)
(* Claims about the order of stream frames (SpecStream, where the clock    *)
(* counts the frames delivered, so that an entry's timestamp tells which   *)
(* frame it was made for).                                                 *)
(***************************************************************************)
\* the frames the handler makes at least one entry for
FramesWithEntries ==
  {FrameUndecodable, FrameUser, FrameUserNoContent, FrameUserToolResult,
   FrameTextToolText, FrameDone, FrameString, FrameBlankTool}

\* C17: frames are applied one at a time in arrival order: a frame's entries
\* are all added after every entry of the frames before it, which are left as
\* they were; no frame that carries an entry is dropped; the entries of two
\* frames are never interleaved.
C17_FramesInArrivalOrder ==
  [][ \A frame \in Frames :
        Delivered(frame) =>
          /\ SubSeq(messages', 1, Len(messages)) = messages
          /\ \A i \in 1..Len(Added) : Added[i].timestamp = clock
          /\ \A i \in 1..Len(messages) : messages[i].timestamp < clock
          /\ frame \in FramesWithEntries => Len(Added) >= 1
          /\ \A i, j \in 1..Len(messages') :
               i < j => messages'[i].timestamp <= messages'[j].timestamp ]_vars

\* C17 witness: two frames were delivered and the entries of the first stand
\* before the entries of the second.
C17_Witness ==
  /\ last.op = "onMessage" /\ clock = 2
  /\ Len(messages) >= 3
  /\ messages[1].timestamp = 0
  /\ messages[Len(messages)].timestamp = 1

(***************************************************************************)
(* Claims about the error classifier (SpecClassify).                       *)
(***************************************************************************)
\* formatActorError was applied to a {error_type: kind, data} error
ClassifiedKind(kind) ==
  /\ last.op = "formatActorError"
  /\ last.error.t = "object"
  /\ Get(last.error, "error_type") = Str(<<kind>>)

\* the decimal digit a token writes
IsDigit(token) == \E d \in 0..9 : ToString(d) = token
DigitOf(token) == CHOOSE d \in 0..9 : ToString(d) = token

\* long division of a decimal number (digits, most significant first, after
\* the remainder carried in) by m: the quotient's digits and the remainder
RECURSIVE DivRem(_, _, _)
DivRem(digits, m, carried) ==
  IF digits = <<>> THEN [quotient |-> <<>>, remainder |-> carried]
  ELSE LET current == carried * 10 + Head(digits)
           rest == DivRem(Tail(digits), m, current % m)
       IN [quotient |-> <<current \div m>> \o rest.quotient,
           remainder |-> rest.remainder]

\* the k little-endian bytes that encode a decimal number
RECURSIVE BytesOfDecimal(_, _)
BytesOfDecimal(digits, k) ==
  IF k = 0 THEN <<>>
  ELSE LET d == DivRem(digits, 256, 0)
       IN <<d.remainder>> \o BytesOfDecimal(d.quotient, k - 1)

\* the text reports n seconds, n written in decimal without leading zeros,
\* and n is the integer the bytes encode
ReportsSeconds(text, bytes) ==
  /\ Len(text) >= 4
  /\ text[1] = "Operation timed out after "
  /\ text[Len(text) - 1] = " seconds"
  /\ text[Len(text)] = "."
  /\ LET tokens == SubSeq(text, 2, Len(text) - 2)
     IN /\ \A i \in 1..Len(tokens) : IsDigit(tokens[i])
        /\ Len(tokens) > 1 => tokens[1] # "0"
        /\ BytesOfDecimal([i \in 1..Len(tokens) |-> DigitOf(tokens[i])], 8)
             = [i \in 1..8 |-> bytes[i]]

\* C18: for every operation-timeout error whose data is exactly 8 bytes, the
\* message reports exactly the unsigned 64-bit little-endian integer those
\* bytes encode as the number of seconds, the all-zero payload (0) and the
\* all-0xFF payload (2^64 - 1) included.
C18_TimeoutSecondsExact ==
  (/\ ClassifiedKind("operation-timeout")
   /\ Get(last.error, "data").t = "array"
   /\ Len(Get(last.error, "data").bytes) = 8) =>
     /\ ~last.threw
     /\ ReportsSeconds(last.text, Get(last.error, "data").bytes)

\* the error kinds whose message is built from the data
TemplatedKinds ==
  {"operation-timeout", "function-not-found", "type-mismatch", "internal",
   "update-component-error"}

\* the phrase each of them falls back to
FallbackPhrase(kind) ==
  CASE kind = "operation-timeout" -> "a specified duration"
    [] kind \in {"function-not-found", "type-mismatch"} -> "unknown"
    [] kind = "internal" ->
         "An internal actor error occurred. Check the logs for more details."
    [] kind = "update-component-error" -> "no details available"

\* data that is null, empty, of the wrong length, not UTF-8, not JSON, JSON
\* without a description, or not an array at all
MalformedData(kind) ==
  {Null, Array(<<>>), Number(-1)}
    \cup (IF kind = "operation-timeout"
          THEN {Array(<<1>>), Array(<<1, 0, 0, 0, 0, 0, 0, 0, 0>>)}
          ELSE {Array(<<255>>)})
    \cup (IF kind = "internal"
          THEN {Array(<<102>>), Array(EmptyObjectJson), Array(NullJson)}
          ELSE {})

\* formatActorError was applied to an error of this kind whose data is absent
\* or malformed
ClassifiedMalformed(kind) ==
  /\ last.op = "formatActorError"
  /\ \/ last.error = WitErrorNoData(kind)
     \/ \E data \in MalformedData(kind) : last.error = WitErrorData(kind, data)

\* C19: for every templated error kind, absent, undersized, wrong-length or
\* otherwise malformed data gives a message that contains the kind's generic
\* fallback phrase, and the classifier does not throw.
C19_MalformedDataFallsBack ==
  \A kind \in TemplatedKinds :
    ClassifiedMalformed(kind) =>
      /\ ~last.threw
      /\ \E i \in 1..Len(last.text) : last.text[i] = FallbackPhrase(kind)

\* C20: formatActorError returns a string for every input and never throws; a
\* native Error gives its message unchanged, a structured error of an
\* unrecognized kind a message with the stringified kind and data in it, any
\* other object its JSON text, a primitive its String().
C20_FormatActorErrorTotal ==
  last.op = "formatActorError" =>
    /\ ~last.threw
    /\ last.error = NativeError(<<"boom">>) => last.text = <<"boom">>
    /\ last.error = WitErrorData("weird", Null) =>
         last.text =
           <<"An unknown actor error occurred: ", "{", "\"", "error_type", "\"",
             ":", "\"", "weird", "\"", ",", "\"", "data", "\"", ":", "null", "}">>
    /\ last.error = KeyedError("weird", Array(<<1>>)) =>
         last.text =
           <<"An unknown actor error occurred: ", "{", "\"", "error_type", "\"",
             ":", "\"", "weird", "\"", ",", "\"", "data", "\"", ":", "[", "1",
             "]", "}">>
    /\ last.error = Object(<<>>) => last.text = <<"{", "}">>
    /\ last.error = Object(<<Entry("a", Number(1)), Entry("b", Null)>>) =>
         last.text =
           <<"{", "\"", "a", "\"", ":", "1", ",", "\"", "b", "\"", ":", "null",
             "}">>
    /\ last.error = Null => last.text = <<"null">>
    /\ last.error = Undefined => last.text = <<"undefined">>
    /\ last.error = Number(5) => last.text = <<"5">>
    /\ last.error = Str(<<"oops">>) => last.text = <<"oops">>

(***************************************************************************)
(* Claims about one frame after setup (Spec).                              *)
(***************************************************************************)
\* setupChannel went through and nothing else has happened since: the four
\* setup requests and no other were issued, the transcript is empty, no
\* lifecycle callback has fired
FreshSession ==
  /\ pc = "done"
  /\ setupStatus = "ready"
  /\ wire = SetupRequests
  /\ messages = <<>>
  /\ ~actorHasExited
  /\ timers = <<>>

\* the frame handler ran on this frame: the step records it, or adds to the
\* transcript under its record
FrameDelivered(frame) ==
  /\ last'.op = "onMessage"
  /\ last'.frame = frame
  /\ last' # last \/ Len(messages') > Len(messages)

\* C21: after a successful setup, when the one frame delivered is an
\* assistant Message with the single text block "Done." and stop_reason
\* end_turn, the transcript is exactly one assistant message "Done." with
\* status complete, and isGenerating is false.
C21_DoneFrameAfterSetup ==
  [][(FreshSession /\ FrameDelivered(FrameDone)) =>
       /\ messages' = <<Message("assistant", <<"Done.">>, "complete", NoTool,
                                <<>>, clock)>>
       /\ ~isGenerating']_vars

\* the frame arrived in a task-mode session, where setup had set isGenerating
C21_Witness ==
  /\ pc = "done"
  /\ mode = AutoMode(ui)
  /\ wire = SetupRequests
  /\ last = [op |-> "onMessage", frame |-> FrameDone]
  /\ Len(messages) = 1
  /\ messages[1].content = <<"Done.">>
  /\ ~isGenerating

(***************************************************************************)
(* Claims about the store's order (SpecStore).                             *)
(***************************************************************************)
\* no entry stands before an entry that was created earlier
NonDecreasing(s) ==
  \A i, j \in 1..Len(s) : i < j => s[i].timestamp <= s[j].timestamp

\* C22: in every reachable transcript the creation timestamps are
\* non-decreasing in transcript order, also after a tool message was inserted
\* before a pending assistant message.
C22_TimestampsNonDecreasing == NonDecreasing(messages)

\* t is s with the entry at position k new and every entry of s kept, as it
\* was and in its order
InsertedAt(s, t, k) ==
  /\ Len(t) = Len(s) + 1
  /\ k \in 1..Len(t)
  /\ \A i \in 1..Len(s) : t[IF i < k THEN i ELSE i + 1] = s[i]

\* C23: addToolMessage inserts exactly one complete tool entry: immediately
\* before the last pending assistant message when there is one (never after
\* it), at the end when there is none; every entry that was there keeps its
\* content and its place among the others.
C23_ToolBeforeLastPending ==
  [][last'.op = "addToolMessage" =>
       \E k \in 1..(Len(messages) + 1) :
         /\ InsertedAt(messages, messages', k)
         /\ messages'[k].role = "tool"
         /\ messages'[k].status = "complete"
         /\ messages'[k].content = <<>>
         /\ messages'[k].timestamp = clock
         /\ IF PendingAssistants(messages) = {}
            THEN k = Len(messages) + 1
            ELSE /\ k \in PendingAssistants(messages)
                 /\ \A j \in PendingAssistants(messages) : j <= k]_vars

\* a tool entry was put between two pending assistant entries, before the
\* last of them
C23_Witness ==
  /\ last.op = "addToolMessage"
  /\ Len(messages) = 3
  /\ IsPendingAssistant(messages[1])
  /\ messages[2].role = "tool"
  /\ IsPendingAssistant(messages[3])

(***************************************************************************)
(* Claims about frames the handler passes over (SpecStream).               *)
(***************************************************************************)
\* the frame parsed, and is not a chat_message envelope with a message
IsUnrecognized(frame) ==
  /\ frame.decodable
  /\ frame.type # "chat_message" \/ ~frame.hasMessage

\* C25: a well-formed frame whose envelope type is not chat_message, or that
\* has no message field, is a no-op: the transcript, isGenerating and the
\* terminal state are unchanged and no error entry is produced.
C25_UnrecognizedFrameIsNoOp ==
  [][(last'.op = "onMessage" /\ IsUnrecognized(last'.frame)) =>
       /\ messages' = messages
       /\ isGenerating' = isGenerating
       /\ actorHasExited' = actorHasExited
       /\ workflowCompleted' = workflowCompleted
       /\ setupStatus' = setupStatus
       /\ timers' = timers
       /\ exitCode' = exitCode]_vars

\* an envelope of another type arrived in the middle of a turn and left the
\* transcript and isGenerating as they were
C25_Witness ==
  /\ last = [op |-> "onMessage", frame |-> FrameOtherType]
  /\ clock = 2
  /\ Len(messages) = 3
  /\ isGenerating

\* C28: onActorEvent never mutates session or transcript state: for any
\* event the transcript, isGenerating and the terminal state are unchanged,
\* and the event goes to the optional observer (the verbose log) only.
C28_EventMutatesNothing ==
  [][last'.op = "onActorEvent" =>
       /\ UNCHANGED <<messages, clock, sessionVars>>
       /\ last'.console \in {<<>>, <<"Domain actor event:", last'.event>>}]_vars

\* an event was logged in the middle of a turn of the lifecycle UI
C28_Witness ==
  /\ last.op = "onActorEvent"
  /\ last.console # <<>>
  /\ isGenerating
  /\ Len(messages) = 3

\* the frame is a chat_message whose entry has role user
IsUserFrame(frame) == frame.decodable /\ Recognized(frame) /\ IsUserMessage(frame)

\* the text of the first text block of the frame's entry
RECURSIVE FirstTextBlock(_)
FirstTextBlock(blocks) ==
  IF blocks = <<>> THEN <<>>
  ELSE IF Head(blocks).type = "text" THEN Head(blocks).text
  ELSE FirstTextBlock(Tail(blocks))

\* C26: a chat_message frame whose entry role is user appends exactly one
\* message with role user, status complete and the entry's first text block
\* as content, verbatim; it adds no assistant or tool entry and leaves
\* isGenerating unchanged.
C26_UserFrameAppendsUserEntry ==
  [][(last'.op = "onMessage" /\ IsUserFrame(last'.frame)) =>
       /\ messages' =
            Append(messages,
                   Message("user", FirstTextBlock(last'.frame.blocks),
                           "complete", NoTool, <<>>, clock))
       /\ isGenerating' = isGenerating]_vars

(***************************************************************************)
(* Claims about the placeholder of the next turn (SpecTurns).              *)
(***************************************************************************)
\* the frame handler ran on an assistant frame that announces more
ContinuingFrameHandled ==
  /\ last'.op = "onMessage"
  /\ clock' # clock
  /\ IsAssistantFrame(last'.frame)
  /\ last'.frame.stop_reason \notin {"none", "end_turn"}

\* the frame handler ran on an assistant frame
AssistantFrameHandled ==
  /\ last'.op = "onMessage"
  /\ clock' # clock
  /\ IsAssistantFrame(last'.frame)

\* the entries of s that are complete
CompleteEntries(s) == {i \in 1..Len(s) : s[i].status = "complete"}

\* every complete entry of s is in t as it was, in the same order
CompleteKept(s, t) ==
  \E f \in [CompleteEntries(s) -> 1..Len(t)] :
    /\ \A i \in CompleteEntries(s) : t[f[i]] = s[i]
    /\ \A i, j \in CompleteEntries(s) : i < j => f[i] < f[j]

\* the text a frame carries for the transcript
FrameText(frame) ==
  IF frame.contentKind = "blocks" THEN FullContent(frame.blocks) ELSE <<>>

C27_CloseThenStop ==
  last.op = "cleanup" =>
    /\ \A i, j \in 1..Len(last.requests) :
         (last.requests[i] = "close" /\ last.requests[j] = "stop") => i < j
    /\ effectCleanup.channel => last.requests[1] = "close"
    /\ (effectCleanup.session /\ effectCleanup.client) =>
         last.requests[Len(last.requests)] = "stop"
    /\ ~last.raised
    /\ pc \in {"stopActor", "returned", "exited"}
    /\ pc = "exited" => exitCode = stopping[1].exit

\* the close threw and the stop was rejected, and the cleanup returned after
\* having requested both, in this order, for the second time
C27_Witness ==
  /\ last.op = "cleanup"
  /\ last.closeThrew /\ last.stopRejected
  /\ last.requests = <<"close", "stop">>
  /\ pc = "returned"
  /\ clock = 2

(***************************************************************************)
(* Claims about the terminal state (Spec).                                 *)
(***************************************************************************)
\* C29: in every reachable state in which the session is terminal (onActorExit
\* or onActorError has fired), isGenerating is false, whatever the
\* interleaving of the lifecycle callbacks with the setup steps, the stream
\* frames and the sends.
C29_TerminalNotGenerating == actorHasExited => ~isGenerating

(***************************************************************************)
(* Claims about the shutdown timers (SpecShutdown).                        *)
(***************************************************************************)
\* onActorError has fired and its shutdown timer is set
ErrorShutdownScheduled ==
  \E i \in 1..Len(timers) : timers[i] = Timer(1, ErrorTimerDelay)

\* C30: once onActorError has fired for the session, the process terminates
\* with a non-zero exit code, whatever the interleaving with a later
\* onActorExit callback and the shutdown timer of that callback.
C30_ErrorExitsNonZero ==
  [][(Alive /\ ErrorShutdownScheduled /\ exitCode' # NotExited) =>
       exitCode' # 0]_vars

(***************************************************************************)
(* Claims about sends in flight (Spec).                                    *)
(***************************************************************************)
\* an AddMessage request was sent and not answered, and isGenerating has
\* been true since an accepted send
SendOutstanding == pendingSends > 0 /\ isGenerating

\* C31: at most one AddMessage request is outstanding: from an accepted
\* sendMessage until isGenerating is next cleared, no second AddMessage
\* request reaches the transport, also when two submits come back to back
\* before sendMessage was re-created over the new isGenerating.
C31_OneSendOutstanding == [][ SendOutstanding => ~SendAccepted ]_vars

(***************************************************************************)
(* Claims about the end of a turn (SpecLive).                              *)
(***************************************************************************)
\* isGenerating is true and a sendMessage was accepted before
GeneratingAfterSend == isGenerating /\ wire["AddMessage"] > 0

\* C32: after an accepted sendMessage has set isGenerating, isGenerating
\* eventually becomes false, provided the transport eventually delivers an
\* end_turn frame, a failed AddMessage response, an undecodable frame or an
\* actor exit or error callback; each of these deliveries leaves it false.
C32_TurnEventuallyEnds ==
  /\ GeneratingAfterSend ~> ~isGenerating
  /\ [][ClearingDelivery => ~isGenerating']_vars

\* an end_turn frame has ended the turn a send opened, the component has
\* rendered since, and the input's sendMessage accepts the next text
C32_Witness ==
  /\ wire["AddMessage"] > 0
  /\ last = [op |-> "onMessage", frame |-> FrameDone]
  /\ ~isGenerating
  /\ rendered = Snapshot
  /\ ~SendRejected(rendered, <<"hi">>)

\* client.sendMessage has settled on a transport failure or on a response
\* that is not Success
SendFailed == SendReturned /\ last'.response \in ChatResponses \ {"Success"}

\* sendMessage as the next render creates it
NextSendMessage ==
  [channel |-> channel', isGenerating |-> isGenerating',
   actorHasExited |-> actorHasExited']

\* C33: when an accepted sendMessage fails (transport failure or a response
\* other than Success), exactly one entry is appended, of role error; no
\* user entry is appended; and isGenerating is reset to false, so that, the
\* session still being active, the sendMessage of the next render accepts.
C33_FailedSendIsOneErrorEntry ==
  [][SendFailed =>
       /\ IsAppend(messages, messages')
       /\ messages'[Len(messages')].role = "error"
       /\ messages'[Len(messages')].status = "complete"
       /\ UserEntries(messages') = UserEntries(messages)
       /\ ~isGenerating'
       /\ ~actorHasExited' => ~SendRejected(NextSendMessage, <<"hi">>)]_vars

\* a send was refused by the actor, and a send made after that was accepted
C33_Witness ==
  /\ last = [op |-> "sendMessage", response |-> "Error"]
  /\ messages # <<>>
  /\ messages[Len(messages)].role = "error"
  /\ ~actorHasExited
  /\ isGenerating
  /\ pendingSends = 1

(***************************************************************************)
(* Claims about the status of entries in the lifecycle UI (SpecLive).      *)
(***************************************************************************)
\* C34: in the lifecycle UI every transcript entry has status complete in
\* every reachable state: neither the frame handler nor sendMessage nor a
\* lifecycle callback creates a pending entry.
C34_EveryEntryComplete ==
  ui = "lifecycle" => \A i \in 1..Len(messages) : messages[i].status = "complete"

\* the transcript holds a tool entry and an assistant entry of a frame, the
\* error entry of a failed send and the notice of the actor's exit
C34_Witness ==
  /\ ui = "lifecycle"
  /\ \E i, j, k, l \in 1..Len(messages) :
       /\ messages[i].role = "tool"
       /\ messages[j].role = "assistant"
       /\ messages[k].role = "error"
       /\ messages[l].role = "system"

(***************************************************************************)
(* Claims about updateLastPendingMessage (SpecStore).                      *)
(***************************************************************************)
\* the step is updateLastPendingMessage(content, status), called directly or
\* by updateLastPendingMessageContent(content) with status 'pending'
UpdateCalled ==
  last'.op \in {"updateLastPendingMessage", "updateLastPendingMessageContent"}

UpdateStatus ==
  IF last'.op = "updateLastPendingMessage" THEN last'.status ELSE "pending"

\* C35: updateLastPendingMessage(content, status) changes only the pending
\* entry closest to the end of the transcript, setting its content and its
\* status, and leaves the length, the order and every other entry as they
\* were; where no entry is pending it changes nothing.
C35_UpdateChangesLastPendingOnly ==
  [][UpdateCalled =>
       LET pending == {i \in 1..Len(messages) : messages[i].status = "pending"}
       IN IF pending = {} THEN messages' = messages
          ELSE \E i \in pending :
                 /\ \A j \in pending : j <= i
                 /\ Len(messages') = Len(messages)
                 /\ \A j \in 1..Len(messages) : j # i => messages'[j] = messages[j]
                 /\ messages'[i] = [messages[i] EXCEPT !.content = last'.content,
                                                        !.status = UpdateStatus]]_vars

\* of two pending entries the later one was completed with new content and
\* the earlier one is pending still
C35_Witness ==
  /\ last = [op |-> "updateLastPendingMessage", content |-> <<"a">>,
             status |-> "complete"]
  /\ \E i, j \in 1..Len(messages) :
       /\ i < j
       /\ messages[i].status = "pending" /\ messages[i].content = <<>>
       /\ messages[j].status = "complete" /\ messages[j].content = <<"a">>
       /\ \A k \in (j + 1)..Len(messages) : messages[k].status = "complete"

(***************************************************************************)
(* Claims about the setup status (Spec).                                   *)
(***************************************************************************)
\* the step sets the setup status to 'ready', be it only in passing
ReadySet ==
  /\ exitCode' = NotExited
  /\ \/ setupStatus' = "ready" /\ setupStatus # "ready"
     \/ /\ IdReturned
        /\ \E i \in 1..Len(last'.statuses) : last'.statuses[i] = "ready"

\* the step is the failure of one of the four calls of setupChannel
SetupFailed == pc # "failed" /\ pc' = "failed"

\* C36: the setup status becomes ready only once StartChat was answered with
\* Success; a failure of startDomainActor, getChatStateActorId,
\* openChannelStream or startGitWorkflow leaves the status at error with
\* isGenerating false; and from error the status never becomes ready.
C36_ReadyOnlyAfterStartChat ==
  [][ /\ ReadySet =>
           /\ WorkflowReturned
           /\ last'.op = "startGitWorkflow" /\ last'.response = "Success"
      /\ SetupFailed => setupStatus' = "error" /\ ~isGenerating'
      /\ (pc = "failed" /\ exitCode' = NotExited) =>
           /\ pc' = "failed"
           /\ setupStatus' = "error"
           /\ ~isGenerating' ]_vars

(***************************************************************************)
(* Claims about the handlers of startGitSession (SpecGitSession).          *)
(***************************************************************************)
\* the user callback a result is meant for, with its argument
CallFor(result) ==
  IF result.type = "Error" THEN Call("onActorError", result.error)
  ELSE Call("onActorExit", result)

\* C37 as stated: each actor result the transport delivers invokes exactly
\* one user callback: onActorError with the result's error, and never
\* onActorExit, for a result of type Error; onActorExit, and never
\* onActorError, for any other result.
C37_ExactlyOneCallback ==
  last.op = "onActorResult" => last.calls = <<CallFor(last.delivered)>>

\* C37, amended: each actor result invokes at most one user callback, never
\* the one of the other kind: it invokes the callback the result is meant
\* for where the caller supplied that callback, and none where not.
C37_OneCallbackWhereSupplied ==
  last.op = "onActorResult" =>
    LET call == CallFor(last.delivered)
    IN last.calls = IF last.callbacks[call.callback] THEN <<call>> ELSE <<>>

\* an Error result was delivered to a caller that supplied both callbacks,
\* and onActorError alone was invoked, with the result's error
C37_Witness ==
  /\ last.op = "onActorResult"
  /\ last.delivered.type = "Error"
  /\ last.callbacks.onActorExit /\ last.callbacks.onActorError
  /\ last.calls = <<Call("onActorError", last.delivered.error)>>

(***************************************************************************)
(* Claims about the automatic exit (SpecAutoExit).                         *)
(***************************************************************************)
\* the step is setWorkflowCompleted(true) out of the completion effect
MarkedCompleted ==
  /\ ui = "autoexit"
  /\ ~workflowCompleted /\ workflowCompleted'
  /\ exitCode' = NotExited

\* the step is the auto-exit effect calling gracefulExit(0), which waits for
\* stopActor
AutoExitStarted == stopping' = Append(stopping, Then(0, FALSE, "autoExit"))

\* the step is the process.exit at the end of that gracefulExit(0)
AutoExited == Alive /\ last'.op = "exit" /\ last'.by = "autoExit"

\* C38: in workflow mode of the auto-exit UI the workflow is marked completed
\* only in a state where isGenerating is false and the last transcript entry
\* is an assistant entry; once it is marked while the mode is still workflow,
\* a stop of the actor is requested and then the process exits with code 0
\* (unless 'i' is pressed before the auto-exit effect has run); and in
\* interactive mode neither the marking nor the automatic exit happens.
C38_AutoExitAfterCompletion ==
  /\ [][ /\ MarkedCompleted =>
              /\ currentMode = "workflow"
              /\ ~isGenerating
              /\ messages # <<>>
              /\ messages[Len(messages)].role = "assistant"
         /\ AutoExitStarted =>
              /\ workflowCompleted /\ currentMode = "workflow"
              /\ wire'["stop"] = wire["stop"] + 1
         /\ AutoExited =>
              /\ exitCode' = 0
              /\ \E i \in 1..Len(stopping) : stopping[i].by = "autoExit" ]_vars
  /\ (ui = "autoexit" /\ workflowCompleted /\ currentMode = "workflow")
       ~> (exitCode = 0 \/ currentMode = "interactive")

\* the process has left with code 0 at the end of the automatic exit, after
\* the stop request was sent
C38_Witness ==
  /\ exitCode = 0
  /\ last = [op |-> "exit", by |-> "autoExit"]
  /\ wire["stop"] = 1

====
